---------------------------- MODULE Spec2Model ----------------------------
(***************************************************************************)
(* A model of the causal-loop simulation engine src/api/engine.js:         *)
(* runCausalSimulation normalizes a loosely typed graph description,       *)
(* anchors the starting values on a five-factor state, integrates the      *)
(* damped linear system with synchronous Euler steps, enumerates feedback  *)
(* cycles by depth-first search and projects the final values on the five  *)
(* factors.                                                                *)
(*                                                                         *)
(* Numbers.  A JavaScript number is modelled as an exact rational          *)
(* [n |-> numerator, d |-> denominator] in lowest terms with d > 0; d = 0  *)
(* stands for a non-finite number (n = 0: NaN, n = 1: Infinity,            *)
(* n = -1: -Infinity); numerator and denominator are 32-bit integers.      *)
(* Sums, products and clamps of values are exact, where the engine's are   *)
(* IEEE-754 double operations: the two agree on dyadic values and differ   *)
(* by the rounding of doubles on the others.  The dominance of a cycle,    *)
(* which the engine rounds to an integer, is computed in doubles as the    *)
(* engine computes it (a double is m * 2^e with m a natural number held    *)
(* as a list of 15-bit limbs), each weight being first rounded to the      *)
(* nearest double.                                                         *)
(*                                                                         *)
(* Values.  A JavaScript value is a record [k, n, d, s, keys, items, ref]: *)
(* k is the kind ("undefined", "null", "number", "string", "array",        *)
(* "object"), n/d the number, s the string, items the elements of an       *)
(* array or the property values of an object, keys the property names of   *)
(* an object in insertion order, ref the identity of an array or object.   *)
(* Booleans and functions are not modelled; strings are of printable       *)
(* ASCII characters and the white space characters space, tab, line feed,  *)
(* form feed and carriage return.                                          *)
(*                                                                         *)
(* Identity.  Two arrays or objects are the same value when they are the   *)
(* same object, whatever they hold: ===, indexOf, Map and Set compare      *)
(* them by identity.  An invocation is a direct call of the exported       *)
(* runCausalSimulation (line 305) with two argument expressions.  Evaluate *)
(* is the evaluation of such an expression: every array and object written *)
(* in it is an object of its own, named by its place in the expression     *)
(* (so it is too in a description parsed from JSON text); Shared marks one *)
(* object that the calling code holds in a variable and puts at several    *)
(* places.  With ref in the record, equality of records is the equality    *)
(* by which Map and Set compare their keys (+0 and -0 are not told apart); *)
(* === and indexOf differ from it on NaN, which StrictEquals says.         *)
(*                                                                         *)
(* Conversions.  ToPrimitive of an object whose own property toString is   *)
(* no function raises a TypeError.  ConvertThrows says of a value that its *)
(* conversion to a string or number raises; Number, ToPropertyKey, Less    *)
(* and Join are defined on the values whose conversion returns, and the    *)
(* actions raise where the engine converts a value of the other kind.      *)
(*                                                                         *)
(* Ids.  The engine takes any truthy value as an id; a graph description   *)
(* names its variables by strings, and numbers behave as the strings they  *)
(* are written as wherever an id is a property name.  The statements about *)
(* the cycles of such descriptions (C8, C21, C23) are made for ids that    *)
(* are strings or numbers (PlainIds); arrays and objects as ids are kept   *)
(* in the inputs for what the engine does with them, one object at both    *)
(* ends of an edge included.  The maps of the engine compare ids           *)
(* as values in the sense above (string and number ids by content, array   *)
(* and object ids by identity); the association table and the snapshots    *)
(* are objects and read or write an id under its property name.  A         *)
(* snapshot is modelled by the own properties of the object the engine     *)
(* builds, in the order the object enumerates them: it has no property     *)
(* __proto__, and its array-index names come first, in numeric order.      *)
(*                                                                         *)
(* Sorting.  canonicalizeCycle sorts the rotations of a cycle with a       *)
(* comparator that is no consistent order on mixed ids (numbers and        *)
(* non-numeric strings, distinct objects of equal text); the outcome then  *)
(* depends on the sorting procedure, which is modelled as the one of V8    *)
(* for lists under 64 elements: one initial run, then binary insertion.    *)
(*                                                                         *)
(* An invocation is one behaviour: Invoke runs the synchronous entry code  *)
(* up to snapshot 0, EulerStep is one iteration of the integration loop,   *)
(* VisitRoot/VisitEdge/VisitReturn are the steps of the recursive search,  *)
(* VisitEdgeThrows is the step of the search that raises, Finish returns.  *)
(* SpecRepeated lets invocations follow one another.                       *)
(***************************************************************************)
EXTENDS Integers, Sequences, FiniteSets, TLC

-----------------------------------------------------------------------------
(* Exact rational arithmetic.                                              *)

RECURSIVE Gcd(_, _)
Gcd(a, b) == IF b = 0 THEN a ELSE Gcd(b, a % b)

IAbs(i) == IF i < 0 THEN -i ELSE i

\* The rational num/den (den # 0) in lowest terms with a positive denominator.
Rat(num, den) ==
    LET g == Gcd(IAbs(num), IAbs(den))
        s == IF den < 0 THEN -1 ELSE 1
    IN  [n |-> s * (num \div g), d |-> s * (den \div g)]

Int2Rat(i) == [n |-> i, d |-> 1]
NaN == [n |-> 0, d |-> 0]

\* Sums and comparisons go through the least common denominator, products
\* are reduced crosswise first, which keeps the integers small.
RAdd(a, b) ==
    LET g == Gcd(a.d, b.d)
    IN  Rat(a.n * (b.d \div g) + b.n * (a.d \div g), (a.d \div g) * b.d)
RNeg(a)    == [n |-> -a.n, d |-> a.d]
RSub(a, b) == RAdd(a, RNeg(b))
RMul(a, b) ==
    LET x == Rat(a.n, b.d)
        y == Rat(b.n, a.d)
    IN  Rat(x.n * y.n, x.d * y.d)
RDiv(a, b) == RMul(a, Rat(b.d, b.n))
RLt(a, b)  ==
    LET g == Gcd(a.d, b.d)
    IN  a.n * (b.d \div g) < b.n * (a.d \div g)
RLe(a, b)  == ~RLt(b, a)
RMax(a, b) == IF RLt(a, b) THEN b ELSE a
RMin(a, b) == IF RLt(b, a) THEN b ELSE a
RAbs(a)    == [n |-> IAbs(a.n), d |-> a.d]
IsFinite(a) == a.d # 0

\* Math.sign on a finite number.
MathSign(a) == IF a.n > 0 THEN 1 ELSE IF a.n < 0 THEN -1 ELSE 0

RECURSIVE RSum(_)
RSum(seq) == IF seq = <<>> THEN Int2Rat(0)
             ELSE RAdd(RSum(SubSeq(seq, 1, Len(seq) - 1)), seq[Len(seq)])

\* clamp(value, min, max): NaN gives min.
clamp(value, min, max) ==
    IF value.d = 0 /\ value.n = 0 THEN min
    ELSE RMax(min, RMin(max, value))

NORMALIZED_RANGE == [min |-> Int2Rat(0), max |-> Int2Rat(10)]

-----------------------------------------------------------------------------
(* IEEE-754 double arithmetic, for the one place where the engine rounds a *)
(* computed double to an integer.  A natural number of any size is a       *)
(* sequence of limbs in base 2^15, least significant first, without high   *)
(* zero limbs; a non-negative double is [m, e], standing for m * 2^e with  *)
(* m a natural number below 2^53 (subnormals and overflow do not occur on  *)
(* the magnitudes the engine divides).                                     *)

\* b to the power k.
RECURSIVE Pow(_, _)
Pow(b, k) == IF k = 0 THEN 1 ELSE b * Pow(b, k - 1)

RECURSIVE BNorm(_)
BNorm(a) == IF a = <<>> THEN a
            ELSE IF a[Len(a)] = 0 THEN BNorm(SubSeq(a, 1, Len(a) - 1)) ELSE a

RECURSIVE BFromInt(_)
BFromInt(i) == IF i = 0 THEN <<>> ELSE <<i % 32768>> \o BFromInt(i \div 32768)

RECURSIVE BToInt(_)
BToInt(a) == IF a = <<>> THEN 0 ELSE a[1] + 32768 * BToInt(Tail(a))

\* a + b + carry.
RECURSIVE BAddC(_, _, _)
BAddC(a, b, carry) ==
    IF a = <<>> /\ b = <<>> THEN BFromInt(carry)
    ELSE LET x == (IF a = <<>> THEN 0 ELSE a[1]) + (IF b = <<>> THEN 0 ELSE b[1]) + carry
         IN  <<x % 32768>> \o BAddC(IF a = <<>> THEN a ELSE Tail(a),
                                       IF b = <<>> THEN b ELSE Tail(b), x \div 32768)

\* a - b - borrow, for a >= b, high zero limbs kept.
RECURSIVE BSubC(_, _, _)
BSubC(a, b, borrow) ==
    IF a = <<>> THEN <<>>
    ELSE LET x == a[1] - (IF b = <<>> THEN 0 ELSE b[1]) - borrow
         IN  <<(x + 32768) % 32768>>
             \o BSubC(Tail(a), IF b = <<>> THEN b ELSE Tail(b), IF x < 0 THEN 1 ELSE 0)

\* a < b.
RECURSIVE BLt(_, _)
BLt(a, b) ==
    IF Len(a) # Len(b) THEN Len(a) < Len(b)
    ELSE IF a = <<>> THEN FALSE
    ELSE IF a[Len(a)] # b[Len(b)] THEN a[Len(a)] < b[Len(b)]
    ELSE BLt(SubSeq(a, 1, Len(a) - 1), SubSeq(b, 1, Len(b) - 1))

\* a * k + carry, for 0 <= k < 2^15.
RECURSIVE BMulSmallC(_, _, _)
BMulSmallC(a, k, carry) ==
    IF a = <<>> THEN BFromInt(carry)
    ELSE LET x == a[1] * k + carry
         IN  <<x % 32768>> \o BMulSmallC(Tail(a), k, x \div 32768)

\* a * 2^k, and the number of bits of a.
BShl(a, k) ==
    IF a = <<>> THEN a
    ELSE [i \in 1..(k \div 15) |-> 0] \o BMulSmallC(a, Pow(2, k % 15), 0)
BBitLen(a) ==
    IF a = <<>> THEN 0
    ELSE 15 * (Len(a) - 1) + CHOOSE k \in 1..15 : Pow(2, k - 1) <= a[Len(a)] /\ a[Len(a)] < Pow(2, k)

\* F(value), the value being computed once and then bound, however often F
\* reads it.
Once(value, F(_)) == CHOOSE out \in {F(x) : x \in {value}} : TRUE

\* Long division in base 2: i more quotient bits, for the multiples
\* d * 2^(i-1), ..., d of the divisor; st holds the quotient and the
\* remainder so far.
RECURSIVE BDivBits(_, _, _)
BDivBits(st, d, i) ==
    LET bit(s, x) == IF BLt(s.r, x) THEN [q |-> BMulSmallC(s.q, 2, 0), r |-> s.r]
                     ELSE [q |-> BMulSmallC(s.q, 2, 1), r |-> BNorm(BSubC(s.r, x, 0))]
    IN  IF i = 0 THEN st
        ELSE Once(st, LAMBDA s : Once(bit(s, BMulSmallC(d, Pow(2, i - 1), 0)),
                                      LAMBDA next : BDivBits(next, d, i - 1)))

\* The quotient and the remainder of n by d > 0, six quotient bits at a
\* time.
RECURSIVE BDivMod(_, _)
BDivMod(n, d) ==
    IF BLt(n, d) THEN [q |-> <<>>, r |-> n]
    ELSE Once(BDivMod(n, BMulSmallC(d, 64, 0)), LAMBDA h : BDivBits(h, d, 6))

\* m * 2^e rounded to the nearest double, ties to the even mantissa.
DRound(m, e) ==
    LET k == BBitLen(m) - 53
        half == BShl(<<1>>, k - 1)
        up(dm) == BLt(half, dm.r) \/ (dm.r = half /\ dm.q[1] % 2 = 1)
    IN  IF k <= 0 THEN [m |-> m, e |-> e]
        ELSE Once(BDivMod(m, BShl(<<1>>, k)),
                  LAMBDA dm : [m |-> IF up(dm) THEN BAddC(dm.q, <<>>, 1) ELSE dm.q, e |-> e + k])

\* (p / q) * 2^e rounded to the nearest double: the quotient is taken to at
\* least 55 bits and a last bit that records a remainder.
DQuot(p, q, e) ==
    LET need == 55 + BBitLen(q) - BBitLen(p)
        s == IF need > 0 THEN need ELSE 0
    IN  IF p = <<>> THEN [m |-> <<>>, e |-> 0]
        ELSE Once(BDivMod(BShl(p, s), q),
                  LAMBDA dm : Once(BAddC(dm.q, dm.q, IF dm.r = <<>> THEN 0 ELSE 1),
                                   LAMBDA m : DRound(m, e - s - 1)))

\* The double nearest to a non-negative rational: a numeric literal, or a
\* small integer.
DFromRat(r) == DQuot(BFromInt(r.n), BFromInt(r.d), 0)

\* a + b and a < b on non-negative doubles.
DAdd(a, b) ==
    LET e == IF a.e < b.e THEN a.e ELSE b.e
    IN  IF a.m = <<>> THEN b
        ELSE IF b.m = <<>> THEN a
        ELSE Once(BAddC(BShl(a.m, a.e - e), BShl(b.m, b.e - e), 0), LAMBDA m : DRound(m, e))
DLt(a, b) ==
    LET e == IF a.e < b.e THEN a.e ELSE b.e
    IN  IF b.m = <<>> THEN FALSE
        ELSE IF a.m = <<>> THEN TRUE
        ELSE BLt(BShl(a.m, a.e - e), BShl(b.m, b.e - e))

\* Math.round on a non-negative double: the nearest integer, halves up.
DMathRound(a) ==
    IF a.m = <<>> THEN 0
    ELSE IF a.e >= 0 THEN BToInt(BShl(a.m, a.e))
    ELSE Once(BDivMod(a.m, BShl(<<1>>, -a.e)),
              LAMBDA dm : BToInt(dm.q) + (IF BLt(dm.r, BShl(<<1>>, -a.e - 1)) THEN 0 ELSE 1))

\* The |weight| added up from 0, in list order.
RECURSIVE DSumAbs(_)
DSumAbs(weights) ==
    IF weights = <<>> THEN [m |-> <<>>, e |-> 0]
    ELSE Once(DSumAbs(SubSeq(weights, 1, Len(weights) - 1)),
              LAMBDA acc : Once(DFromRat(RAbs(weights[Len(weights)])),
                                LAMBDA w : DAdd(acc, w)))

-----------------------------------------------------------------------------
(* JavaScript values and the language operations the engine uses on them.  *)

JSValue(k, n, d, s, keys, items) ==
    [k |-> k, n |-> n, d |-> d, s |-> s, keys |-> keys, items |-> items,
     ref |-> <<>>]

Undefined == JSValue("undefined", 0, 0, "", <<>>, <<>>)
Null      == JSValue("null", 0, 0, "", <<>>, <<>>)
Num(r)    == JSValue("number", r.n, r.d, "", <<>>, <<>>)
Str(s)    == JSValue("string", 0, 0, s, <<>>, <<>>)
Arr(items) == JSValue("array", 0, 0, "", <<>>, items)
Obj(keys, items) == JSValue("object", 0, 0, "", keys, items)
NumI(i)   == Num(Int2Rat(i))
NumOf(v)  == [n |-> v.n, d |-> v.d]

\* One object that the caller puts at several places of a description:
\* every occurrence is the same object r.
Shared(r, v) == [v EXCEPT !.ref = <<0, r>>]

\* The value a description denotes: every array and object written in it
\* is an object of its own, named by its place (path), except the
\* occurrences of a shared object, which are one object.  What a shared
\* object holds is named by places under it.  This is what evaluating
\* the argument expression of a call builds.
RECURSIVE Evaluate(_, _)
Evaluate(v, path) ==
    IF v.k \notin {"array", "object"} THEN v
    ELSE LET built(own) ==
                 [v EXCEPT !.ref = own,
                           !.items = [i \in 1..Len(v.items) |->
                                         Evaluate(v.items[i], Append(own, i))]]
         IN  built(IF v.ref # <<>> THEN v.ref ELSE path)

\* The description a value was built from: the value without identities.
RECURSIVE Literal(_)
Literal(v) ==
    [v EXCEPT !.ref = <<>>,
              !.items = [i \in 1..Len(v.items) |-> Literal(v.items[i])]]

\* ToBoolean: the falsy values are undefined, null, 0, NaN and "".
Truthy(v) ==
    CASE v.k = "undefined" -> FALSE
      [] v.k = "null"      -> FALSE
      [] v.k = "number"    -> v.n # 0
      [] v.k = "string"    -> v.s # ""
      [] OTHER             -> TRUE

\* typeof v === "object" (true of null and of arrays too).
TypeofObject(v) == v.k \in {"object", "array", "null"}
IsArray(v) == v.k = "array"

\* v.key for a named property: an object's own property, undefined on
\* every other value that can be read (the engine reads no array index,
\* length or inherited property this way).
Get(v, key) ==
    IF v.k = "object" /\ \E i \in 1..Len(v.keys) : v.keys[i] = key
    THEN v.items[CHOOSE i \in 1..Len(v.keys) : v.keys[i] = key]
    ELSE Undefined

\* A property read of null or undefined raises a TypeError.
ReadThrows(v) == v.k \in {"undefined", "null"}

\* a || b and a ?? b.
Or(a, b) == IF Truthy(a) THEN a ELSE b
Coalesce(a, b) == IF a.k \in {"undefined", "null"} THEN b ELSE a

\* The value of a digit character (hexadecimal digits included), 16 for
\* every other character.
DigitValue(c) ==
    CASE c = "0" -> 0 [] c = "1" -> 1 [] c = "2" -> 2 [] c = "3" -> 3 [] c = "4" -> 4
      [] c = "5" -> 5 [] c = "6" -> 6 [] c = "7" -> 7 [] c = "8" -> 8 [] c = "9" -> 9
      [] c \in {"a", "A"} -> 10 [] c \in {"b", "B"} -> 11 [] c \in {"c", "C"} -> 12
      [] c \in {"d", "D"} -> 13 [] c \in {"e", "E"} -> 14 [] c \in {"f", "F"} -> 15
      [] OTHER -> 16

\* s is a non-empty string of digits of the base.
AllDigits(s, base) ==
    s # "" /\ \A i \in 1..Len(s) : DigitValue(SubSeq(s, i, i)) < base

\* The number a string of digits writes in the base.
RECURSIVE DigitsValue(_, _)
DigitsValue(s, base) ==
    IF s = "" THEN 0
    ELSE DigitsValue(SubSeq(s, 1, Len(s) - 1), base) * base + DigitValue(SubSeq(s, Len(s), Len(s)))

\* The position of the first character of s that is in chars, 0 when there
\* is none.
FirstOf(s, chars) ==
    IF \A i \in 1..Len(s) : SubSeq(s, i, i) \notin chars THEN 0
    ELSE CHOOSE i \in 1..Len(s) :
            SubSeq(s, i, i) \in chars /\ \A j \in 1..(i - 1) : SubSeq(s, j, j) \notin chars

\* A literal's exponent without its sign, a string without its leading
\* sign.
Unsigned(s) == IF s # "" /\ SubSeq(s, 1, 1) \in {"+", "-"} THEN SubSeq(s, 2, Len(s)) ELSE s

\* The value of an unsigned decimal literal: digits with an optional
\* fraction and an optional exponent, or Infinity; NaN for every other
\* string.
StrUnsignedDecimalLiteral(s) ==
    LET \* text cut at position at: what is before it and what is after it
        \* (all of the text and nothing when at is 0)
        cutAt(text, at) ==
            [found |-> at # 0,
             head |-> IF at = 0 THEN text ELSE SubSeq(text, 1, at - 1),
             tail |-> IF at = 0 THEN "" ELSE SubSeq(text, at + 1, Len(text))]
        \* digits * 10^exponent
        scale(digits, exponent) ==
            IF digits = 0 THEN Int2Rat(0)
            ELSE IF exponent >= 0 THEN Int2Rat(digits * Pow(10, exponent))
            ELSE Rat(digits, Pow(10, -exponent))
        \* the literal with integer part ip, fraction fp and exponent part
        \* expo (found: there is an e; tail: what follows it)
        value(ip, fp, expo) ==
            IF /\ ~expo.found \/ AllDigits(Unsigned(expo.tail), 10)
               /\ ip = "" \/ AllDigits(ip, 10)
               /\ fp = "" \/ AllDigits(fp, 10)
               /\ ip # "" \/ fp # ""
            THEN scale(DigitsValue(ip \o fp, 10),
                       (IF expo.tail # Unsigned(expo.tail) /\ SubSeq(expo.tail, 1, 1) = "-"
                        THEN -1 ELSE 1) * DigitsValue(Unsigned(expo.tail), 10) - Len(fp))
            ELSE NaN
        parts(expo, mant) == value(mant.head, mant.tail, expo)
        mantissa(expo) == parts(expo, cutAt(expo.head, FirstOf(expo.head, {"."})))
    IN  IF s = "Infinity" THEN [n |-> 1, d |-> 0]
        ELSE mantissa(cutAt(s, FirstOf(s, {"e", "E"})))

\* StringToNumber: white space and line terminators around the string are
\* skipped; what is left is empty (0), a binary, octal or hexadecimal
\* integer literal (unsigned), or a decimal literal with an optional sign;
\* every other string is NaN.
RECURSIVE StringToNumber(_)
StringToNumber(s) ==
    LET whiteSpace == {" ", "\t", "\n", "\r", "\f"}
        integer(digits, base) == IF AllDigits(digits, base) THEN Int2Rat(DigitsValue(digits, base)) ELSE NaN
        signed(magnitude) == IF SubSeq(s, 1, 1) = "-" THEN RNeg(magnitude) ELSE magnitude
    IN  IF s = "" THEN Int2Rat(0)
        ELSE IF SubSeq(s, 1, 1) \in whiteSpace THEN StringToNumber(SubSeq(s, 2, Len(s)))
        ELSE IF SubSeq(s, Len(s), Len(s)) \in whiteSpace
        THEN StringToNumber(SubSeq(s, 1, Len(s) - 1))
        ELSE IF Len(s) > 2 /\ SubSeq(s, 1, 2) \in {"0x", "0X", "0o", "0O", "0b", "0B"}
        THEN integer(SubSeq(s, 3, Len(s)),
                     CASE SubSeq(s, 2, 2) \in {"x", "X"} -> 16
                       [] SubSeq(s, 2, 2) \in {"o", "O"} -> 8
                       [] OTHER -> 2)
        ELSE signed(StrUnsignedDecimalLiteral(Unsigned(s)))

\* The decimal digits of a natural number.
RECURSIVE IntToString(_)
IntToString(i) ==
    (IF i < 10 THEN "" ELSE IntToString(i \div 10)) \o SubSeq("0123456789", (i % 10) + 1, (i % 10) + 1)

\* Number::toString on a number whose decimal expansion ends within nine
\* places: the digits, in exponent notation below 0.000001.
NumberToString(r) ==
    LET places == CHOOSE k \in 0..9 :
                    Pow(10, k) % r.d = 0 /\ \A j \in 0..(k - 1) : Pow(10, j) % r.d # 0
        whole == IntToString(IAbs(r.n) \div r.d)
        frac == IntToString((IAbs(r.n) % r.d) * (Pow(10, places) \div r.d))
        exponent == places - Len(frac) + 1
        unsigned ==
            IF places = 0 THEN whole
            ELSE IF whole # "0" \/ exponent <= 6
            THEN whole \o "." \o SubSeq("00000000", 1, places - Len(frac)) \o frac
            ELSE SubSeq(frac, 1, 1) \o (IF Len(frac) > 1 THEN "." ELSE "")
                 \o SubSeq(frac, 2, Len(frac)) \o "e-" \o IntToString(exponent)
    IN  IF r.d = 0
        THEN (IF r.n = 0 THEN "NaN" ELSE IF r.n > 0 THEN "Infinity" ELSE "-Infinity")
        ELSE (IF r.n < 0 THEN "-" ELSE "") \o unsigned

\* The conversion of v to a string or a number raises a TypeError:
\* ToPrimitive of an object finds an own property toString that is no
\* function, so that toString is skipped and valueOf, own and no function
\* or inherited and returning the object, gives no primitive value either.
\* An array converts by joining its elements and raises when one of them
\* does.
RECURSIVE ConvertThrows(_)
ConvertThrows(v) ==
    CASE v.k = "object" -> \E i \in 1..Len(v.keys) : v.keys[i] = "toString"
      [] v.k = "array"  -> \E i \in 1..Len(v.items) : ConvertThrows(v.items[i])
      [] OTHER          -> FALSE

\* ToPropertyKey(v), the string a value becomes as a property name: an
\* array gives its elements' strings joined by commas (nothing for null
\* and undefined), a plain object "[object Object]".  It has no value
\* where the conversion raises.
RECURSIVE ToPropertyKey(_)
ToPropertyKey(v) ==
    CASE v.k = "string"    -> v.s
      [] v.k = "number"    -> NumberToString(NumOf(v))
      [] v.k = "undefined" -> "undefined"
      [] v.k = "null"      -> "null"
      [] v.k = "object" /\ ~ConvertThrows(v) -> "[object Object]"
      [] v.k = "array" /\ ~ConvertThrows(v)  ->
            IF v.items = <<>> THEN ""
            ELSE LET last == v.items[Len(v.items)]
                     front == SubSeq(v.items, 1, Len(v.items) - 1)
                 IN  (IF front = <<>> THEN "" ELSE ToPropertyKey(Arr(front)) \o ",")
                     \o (IF last.k \in {"undefined", "null"} THEN "" ELSE ToPropertyKey(last))

\* a < b on two strings of decimal digits without leading zeros, as
\* numbers.
IndexLess(a, b) ==
    \/ Len(a) < Len(b)
    \/ /\ Len(a) = Len(b)
       /\ \E i \in 1..Len(a) :
            /\ SubSeq(a, 1, i - 1) = SubSeq(b, 1, i - 1)
            /\ DigitValue(SubSeq(a, i, i)) < DigitValue(SubSeq(b, i, i))

\* An array index: the canonical decimal string of an integer in
\* 0..2^32-2.
IsArrayIndex(key) ==
    /\ AllDigits(key, 10)
    /\ Len(key) = 1 \/ SubSeq(key, 1, 1) # "0"
    /\ ~IndexLess("4294967294", key)

\* The order in which an object enumerates its own property names, given
\* in insertion order: the array indices first, ascending, then the other
\* names as inserted.  The result lists positions of keys.
OwnPropertyOrder(keys) ==
    LET pos == 1..Len(keys)
        isIndex(i) == IsArrayIndex(keys[i])
        rank(i) == Cardinality({j \in pos : isIndex(j) /\ IndexLess(keys[j], keys[i])}) + 1
        sorted(indices) ==
            [r \in 1..Cardinality(indices) |-> CHOOSE i \in indices : rank(i) = r]
        plain(i) == ~isIndex(i)
    IN  IF \A i \in pos : plain(i) THEN [i \in pos |-> i]
        ELSE Once({i \in pos : isIndex(i)}, sorted) \o SelectSeq([i \in pos |-> i], plain)

\* Object.entries of an object or an array: <<key, value>> pairs in the
\* order of enumeration; an array's keys are its indices "0", "1", ...
Entries(v) ==
    IF v.k = "object"
    THEN Once(OwnPropertyOrder(v.keys),
              LAMBDA order : [i \in 1..Len(order) |-> <<v.keys[order[i]], v.items[order[i]]>>])
    ELSE IF v.k = "array" THEN [i \in 1..Len(v.items) |-> <<IntToString(i - 1), v.items[i]>>]
    ELSE <<>>

\* Number(value).  An array converts as the string of its elements joined
\* by commas: the empty array as "", an array of one element as that
\* element (as "" when it is undefined or null), a longer one as a text
\* with a comma, which is no number.  A plain object converts as
\* "[object Object]", which is no number.  It has no value where the
\* conversion raises.
RECURSIVE Number(_)
Number(v) ==
    CASE v.k = "undefined" -> NaN
      [] v.k = "null"      -> Int2Rat(0)
      [] v.k = "number"    -> NumOf(v)
      [] v.k = "string"    -> StringToNumber(v.s)
      [] v.k = "array" /\ ~ConvertThrows(v) ->
            IF Len(v.items) = 0 THEN Int2Rat(0)
            ELSE IF Len(v.items) > 1 THEN NaN
            ELSE IF v.items[1].k \in {"undefined", "null"} THEN Int2Rat(0)
            ELSE Number(v.items[1])
      [] v.k = "object" /\ ~ConvertThrows(v) -> NaN

\* toNumber(value, fallback): Number(value) when finite, else the fallback;
\* it raises where Number(value) does.
toNumber(value, fallback) ==
    Once(Number(value), LAMBDA parsed : IF IsFinite(parsed) THEN parsed ELSE fallback)

\* The concatenation of a sequence of sequences.
RECURSIVE Flatten(_)
Flatten(seqs) == IF seqs = <<>> THEN <<>>
                 ELSE Head(seqs) \o Flatten(Tail(seqs))

-----------------------------------------------------------------------------
(* Graph normalization.  A normalized variable is [id, value, baseline],   *)
(* a normalized edge [from, to, weight]; ids are JavaScript values, the    *)
(* numbers are rationals.                                                  *)

Five == Int2Rat(5)

Variable(id, value, baseline) == [id |-> id, value |-> value, baseline |-> baseline]
Edge(from, to, weight) == [from |-> from, to |-> to, weight |-> weight]

\* The initial value and the baseline read from a variable item.
itemInitial(item) ==
    toNumber(Coalesce(Coalesce(Coalesce(Get(item, "initial"), Get(item, "value")),
                               Get(item, "start")), Num(Five)), Five)
itemBaseline(item) ==
    toNumber(Coalesce(Coalesce(Coalesce(Get(item, "baseline"), Get(item, "setPoint")),
                               Num(itemInitial(item))), Num(Five)), Five)

\* The variable pushed for an item with the given id.
itemVariable(id, item) ==
    Variable(id, clamp(itemInitial(item), NORMALIZED_RANGE.min, NORMALIZED_RANGE.max),
                 clamp(itemBaseline(item), NORMALIZED_RANGE.min, NORMALIZED_RANGE.max))

normalizeVariables(graph) ==
    LET rawNodes == Or(Or(Or(Or(Get(graph, "variables"), Get(graph, "nodes")),
                             Get(graph, "stocks")), Get(graph, "vertices")), graph)
        itemId(item) == Or(Get(item, "id"), Get(item, "name"))
        keepItem(item) == Truthy(item) /\ (item.k = "string" \/ Truthy(itemId(item)))
        kept == SelectSeq(rawNodes.items, keepItem)
        keepEntry(e) == e[1] # ""
        entries == SelectSeq(Entries(rawNodes), keepEntry)
    IN  IF IsArray(rawNodes)
        THEN [i \in 1..Len(kept) |->
                IF kept[i].k = "string" THEN Variable(kept[i], Five, Five)
                ELSE itemVariable(itemId(kept[i]), kept[i])]
        ELSE IF Truthy(rawNodes) /\ TypeofObject(rawNodes)
        THEN [i \in 1..Len(entries) |->
                LET id == entries[i][1]
                    item == entries[i][2]
                IN  IF Truthy(item) /\ TypeofObject(item)
                    THEN itemVariable(Str(id), item)
                    ELSE Variable(Str(id),
                            clamp(toNumber(item, Five), NORMALIZED_RANGE.min, NORMALIZED_RANGE.max),
                            clamp(toNumber(item, Five), NORMALIZED_RANGE.min, NORMALIZED_RANGE.max))]
        ELSE <<>>

\* A variant whose default weight is 0.5, as for a bare target.
edgeWeightHalf(edge) ==
    toNumber(Coalesce(Coalesce(Coalesce(Get(edge, "weight"), Get(edge, "strength")),
                               Get(edge, "value")), Num(Rat(1, 2))), Rat(1, 2))

\* The weight read from an edge object.
edgeWeight(edge) ==
    toNumber(Coalesce(Coalesce(Coalesce(Get(edge, "weight"), Get(edge, "strength")),
                               Get(edge, "value")), NumI(0)), Int2Rat(0))

normalizeEdges(graph) ==
    LET rawEdges == Or(Or(Or(Get(graph, "edges"), Get(graph, "links")),
                          Get(graph, "connections")), Arr(<<>>))
        edgeFrom(edge) == Or(Get(edge, "from"), Get(edge, "source"))
        edgeTo(edge) == Or(Get(edge, "to"), Get(edge, "target"))
        keepEdge(edge) == Truthy(edge) /\ Truthy(edgeFrom(edge)) /\ Truthy(edgeTo(edge))
        kept == SelectSeq(rawEdges.items, keepEdge)
        \* the edges of one [key, value] entry of a keyed mapping
        ofEntry(key, value) ==
            IF ~Truthy(value) THEN <<>>
            ELSE IF IsArray(value)
            THEN LET targets == SelectSeq(value.items, Truthy)
                 IN  [j \in 1..Len(targets) |->
                        LET target == targets[j]
                        IN  Edge(Str(key),
                                 IF target.k = "string" THEN target ELSE edgeTo(target),
                                 IF TypeofObject(target) THEN edgeWeight(target)
                                 ELSE Rat(1, 2))]
            ELSE IF TypeofObject(value)
            THEN IF ~Truthy(edgeTo(value)) THEN <<>>
                 ELSE <<Edge(Or(edgeFrom(value), Str(key)), edgeTo(value), edgeWeight(value))>>
            ELSE <<>>
        entries == Entries(rawEdges)
    IN  IF IsArray(rawEdges)
        THEN [i \in 1..Len(kept) |-> Edge(edgeFrom(kept[i]), edgeTo(kept[i]), edgeWeight(kept[i]))]
        ELSE IF Truthy(rawEdges) /\ TypeofObject(rawEdges)
        THEN Flatten([i \in 1..Len(entries) |-> ofEntry(entries[i][1], entries[i][2])])
        ELSE <<>>

\* normalizeVariables raises: toNumber converts the initial value, then the
\* baseline, of an item it keeps.
normalizeVariablesThrows(graph) ==
    LET rawNodes == Or(Or(Or(Or(Get(graph, "variables"), Get(graph, "nodes")),
                             Get(graph, "stocks")), Get(graph, "vertices")), graph)
        itemThrows(item) ==
            \/ ConvertThrows(Coalesce(Coalesce(Get(item, "initial"), Get(item, "value")),
                                       Get(item, "start")))
            \/ ConvertThrows(Coalesce(Get(item, "baseline"), Get(item, "setPoint")))
        keptItem(item) ==
            Truthy(item) /\ item.k # "string" /\ Truthy(Or(Get(item, "id"), Get(item, "name")))
        keptEntry(e) == e[1] # "" /\ Truthy(e[2]) /\ TypeofObject(e[2])
    IN  IF IsArray(rawNodes)
        THEN \E i \in 1..Len(rawNodes.items) :
                keptItem(rawNodes.items[i]) /\ itemThrows(rawNodes.items[i])
        ELSE /\ Truthy(rawNodes) /\ TypeofObject(rawNodes)
             /\ \E i \in 1..Len(rawNodes.items) :
                    /\ keptEntry(<<rawNodes.keys[i], rawNodes.items[i]>>)
                    /\ itemThrows(rawNodes.items[i])

\* normalizeEdges raises: toNumber converts the weight of an edge it keeps,
\* and of every truthy target of a list that is an object.
normalizeEdgesThrows(graph) ==
    LET rawEdges == Or(Or(Or(Get(graph, "edges"), Get(graph, "links")),
                          Get(graph, "connections")), Arr(<<>>))
        weightThrows(edge) ==
            ConvertThrows(Coalesce(Coalesce(Get(edge, "weight"), Get(edge, "strength")),
                                   Get(edge, "value")))
        edgeTo(edge) == Or(Get(edge, "to"), Get(edge, "target"))
        keptEdge(edge) ==
            Truthy(edge) /\ Truthy(Or(Get(edge, "from"), Get(edge, "source")))
            /\ Truthy(edgeTo(edge))
        ofEntryThrows(value) ==
            /\ Truthy(value)
            /\ IF IsArray(value)
               THEN \E j \in 1..Len(value.items) :
                        /\ Truthy(value.items[j]) /\ TypeofObject(value.items[j])
                        /\ weightThrows(value.items[j])
               ELSE TypeofObject(value) /\ Truthy(edgeTo(value)) /\ weightThrows(value)
    IN  IF IsArray(rawEdges)
        THEN \E i \in 1..Len(rawEdges.items) :
                keptEdge(rawEdges.items[i]) /\ weightThrows(rawEdges.items[i])
        ELSE /\ Truthy(rawEdges) /\ TypeofObject(rawEdges)
             /\ \E i \in 1..Len(rawEdges.items) : ofEntryThrows(rawEdges.items[i])

\* The built-in template.
TemplateVariables ==
    << Variable(Str("Isolation"), Int2Rat(6), Five),
       Variable(Str("Belonging"), Int2Rat(4), Five),
       Variable(Str("HPA"), Int2Rat(6), Five),
       Variable(Str("Inflammation"), Rat(55, 10), Five),
       Variable(Str("Neurodegeneration"), Rat(52, 10), Five),
       Variable(Str("Withdrawal"), Rat(58, 10), Five),
       Variable(Str("VagalTone"), Rat(48, 10), Five),
       Variable(Str("Meaning"), Rat(45, 10), Five) >>

TemplateEdges ==
    << Edge(Str("Isolation"), Str("HPA"), Rat(65, 100)),
       Edge(Str("HPA"), Str("Inflammation"), Rat(7, 10)),
       Edge(Str("Inflammation"), Str("Neurodegeneration"), Rat(55, 100)),
       Edge(Str("Neurodegeneration"), Str("Withdrawal"), Rat(42, 100)),
       Edge(Str("Withdrawal"), Str("Isolation"), Rat(58, 100)),
       Edge(Str("Belonging"), Str("Isolation"), Rat(-62, 100)),
       Edge(Str("Belonging"), Str("VagalTone"), Rat(57, 100)),
       Edge(Str("VagalTone"), Str("HPA"), Rat(-68, 100)),
       Edge(Str("Meaning"), Str("Belonging"), Rat(6, 10)),
       Edge(Str("Meaning"), Str("Isolation"), Rat(-45, 100)),
       Edge(Str("Isolation"), Str("Meaning"), Rat(-35, 100)),
       Edge(Str("VagalTone"), Str("Meaning"), Rat(38, 100)) >>

\* A variant without the fallback for the edges.
edgesWithoutFallback(graph) == normalizeEdges(graph)

\* The fallbacks of runCausalSimulation, list.length ? list : template:
\* each list is replaced on its own.
listOr(list, template) == IF Len(list) # 0 THEN list ELSE template
normalizedVariablesOf(graph) == listOr(normalizeVariables(graph), TemplateVariables)
normalizedEdgesOf(graph) == listOr(normalizeEdges(graph), TemplateEdges)

-----------------------------------------------------------------------------
(* Maps keyed by id: a sequence of [id, value] entries in insertion order. *)

MapHas(m, id) == \E i \in 1..Len(m) : m[i].id = id
MapGet(m, id) == m[CHOOSE i \in 1..Len(m) : m[i].id = id].value
\* Map.set: an existing key keeps its place and takes the new value.
MapSet(m, id, value) ==
    IF MapHas(m, id)
    THEN [i \in 1..Len(m) |-> IF m[i].id = id THEN [id |-> id, value |-> value] ELSE m[i]]
    ELSE Append(m, [id |-> id, value |-> value])

-----------------------------------------------------------------------------
(* InitialStateAnchor.                                                     *)

VARIABLE_FACTORS ==
    [ Isolation         |-> <<"emotion", "meaning">>,
      Belonging         |-> <<"emotion", "meaning">>,
      HPA               |-> <<"vitality", "adaptability">>,
      Inflammation      |-> <<"vitality", "adaptability">>,
      Neurodegeneration |-> <<"cognition", "vitality">>,
      Withdrawal        |-> <<"emotion", "adaptability">>,
      VagalTone         |-> <<"vitality", "adaptability", "emotion">>,
      Meaning           |-> <<"meaning", "cognition">> ]

\* VARIABLE_FACTORS[id] for an id that is no key of the table but names a
\* method the table object inherits from Object.prototype: the read gives a
\* function, whose length is its number of parameters.
InheritedMethodLength ==
    [id \in {"constructor", "hasOwnProperty", "isPrototypeOf", "propertyIsEnumerable",
             "__lookupGetter__", "__lookupSetter__"} |-> 1]
    @@ [id \in {"__defineGetter__", "__defineSetter__"} |-> 2]
    @@ [id \in {"toString", "valueOf", "toLocaleString"} |-> 0]

\* The map callback raises a TypeError on a variable: its id does not
\* convert to a property name; or anchors is an inherited method of
\* non-zero length, which passes the !anchors.length test and has no map;
\* or toNumber does not convert one of the factors read for the id.
anchorThrows(table, variable, initialState) ==
    LET raises(key) ==
            IF key \in DOMAIN table
            THEN \E f \in 1..Len(table[key]) : ConvertThrows(Get(initialState, table[key][f]))
            ELSE key \in DOMAIN InheritedMethodLength /\ InheritedMethodLength[key] # 0
    IN  IF ConvertThrows(variable.id) THEN TRUE ELSE raises(ToPropertyKey(variable.id))

\* A variant that anchors a variable without a table entry too, on the mean
\* of all five factors.
anchorVariableAnyId(table, variable, initialState) ==
    LET anchoredAt(average) == Variable(variable.id, average, average)
        anchored(anchorValues) ==
            IF Len(anchorValues) = 0 THEN variable
            ELSE anchoredAt(clamp(RDiv(RSum(anchorValues), Int2Rat(Len(anchorValues))),
                                  NORMALIZED_RANGE.min, NORMALIZED_RANGE.max))
        read(anchors) == [i \in 1..Len(anchors) |-> toNumber(Get(initialState, anchors[i]), NaN)]
        lookup(key) == IF key \in DOMAIN table THEN table[key]
                       ELSE <<"vitality", "cognition", "emotion", "adaptability", "meaning">>
    IN  anchored(SelectSeq(read(lookup(ToPropertyKey(variable.id))), IsFinite))

\* The anchored copy of one variable, given the association table, which
\* is read under the property name of the id.  An id that names nothing
\* with a length (no property at all, a method without parameters, the
\* prototype under __proto__) leaves the variable alone.
anchorVariable(table, variable, initialState) ==
    LET anchoredAt(average) == Variable(variable.id, average, average)
        anchored(anchorValues) ==
            IF Len(anchorValues) = 0 THEN variable
            ELSE anchoredAt(clamp(RDiv(RSum(anchorValues), Int2Rat(Len(anchorValues))),
                                  NORMALIZED_RANGE.min, NORMALIZED_RANGE.max))
        read(anchors) == [i \in 1..Len(anchors) |-> toNumber(Get(initialState, anchors[i]), NaN)]
        lookup(key) == IF key \in DOMAIN table THEN table[key] ELSE <<>>
    IN  anchored(SelectSeq(read(lookup(ToPropertyKey(variable.id))), IsFinite))

applyInitialStateAnchors(table, variables, initialState) ==
    IF ~Truthy(initialState) \/ ~TypeofObject(initialState) THEN variables
    ELSE [i \in 1..Len(variables) |-> anchorVariable(table, variables[i], initialState)]

\* applyInitialStateAnchors does not return: the map callback raises.
anchorsThrow(table, variables, initialState) ==
    /\ Truthy(initialState) /\ TypeofObject(initialState)
    /\ \E i \in 1..Len(variables) : anchorThrows(table, variables[i], initialState)

\* captureSnapshot raises: snapshot[key] converts every id of the values
\* map to a property name.
snapshotThrows(variableList) ==
    \E i \in 1..Len(variableList) : ConvertThrows(variableList[i].id)

-----------------------------------------------------------------------------
(* Integrator.                                                             *)

DefaultSteps == 12
DefaultDt == Rat(35, 100)
DefaultDamping == Rat(28, 100)

IsNumber(v) == v.k = "number"
stepsOf(opts) ==
    LET s == Get(opts, "steps")
    IN  IF IsNumber(s) /\ s.d = 1 /\ s.n > 0 THEN s.n ELSE DefaultSteps
dtOf(opts) ==
    LET v == Get(opts, "dt")
    IN  IF IsNumber(v) /\ IsFinite(NumOf(v)) THEN NumOf(v) ELSE DefaultDt
dampingOf(opts) ==
    LET v == Get(opts, "damping")
    IN  IF IsNumber(v) /\ IsFinite(NumOf(v)) THEN NumOf(v) ELSE DefaultDamping

\* The values and baselines maps built from the variable list.
RECURSIVE initialValues(_)
initialValues(variables) ==
    IF variables = <<>> THEN <<>>
    ELSE LET v == variables[Len(variables)]
         IN  MapSet(initialValues(SubSeq(variables, 1, Len(variables) - 1)), v.id,
                    clamp(v.value, NORMALIZED_RANGE.min, NORMALIZED_RANGE.max))
RECURSIVE initialBaselines(_)
initialBaselines(variables) ==
    IF variables = <<>> THEN <<>>
    ELSE LET v == variables[Len(variables)]
         IN  MapSet(initialBaselines(SubSeq(variables, 1, Len(variables) - 1)), v.id,
                    clamp(v.baseline, NORMALIZED_RANGE.min, NORMALIZED_RANGE.max))

\* snapshot[key] = value for every entry of the values map, on a plain
\* object: the key becomes a property name, the name __proto__ is the
\* prototype accessor, which ignores a number and adds no property, and
\* a later entry of the same name overwrites the earlier one in place.
\* The result lists the properties in the order of their first insertion.
snapshotProperties(vals) ==
    LET name(i) == ToPropertyKey(vals[i].id)
        inserts(i) == name(i) # "__proto__" /\ \A j \in 1..(i - 1) : name(j) # name(i)
        last(i) == CHOOSE j \in i..Len(vals) :
                      name(j) = name(i) /\ \A k \in (j + 1)..Len(vals) : name(k) # name(i)
    IN  Once(SelectSeq([i \in 1..Len(vals) |-> i], inserts),
             LAMBDA at : [p \in 1..Len(at) |->
                            [id |-> Str(name(at[p])), value |-> vals[last(at[p])].value]])

\* captureSnapshot(step): the snapshot object, as its own properties in
\* the order the object enumerates them.
Snapshot(step, vals) ==
    Once(vals, LAMBDA v :
    Once(snapshotProperties(v), LAMBDA props :
    Once(OwnPropertyOrder([i \in 1..Len(props) |-> props[i].id.s]), LAMBDA order :
        [step |-> step, values |-> [i \in 1..Len(order) |-> props[order[i]]]])))

\* A variant that lets an edge from an id without a value act, by reading
\* the neutral value 5 for its source.
deltaOfDefaulting(vals, edgeList, key) ==
    LET into(e) == e.to = key
        hits == SelectSeq(edgeList, into)
    IN  RSum([i \in 1..Len(hits) |->
                RMul(IF MapHas(vals, hits[i].from) THEN MapGet(vals, hits[i].from) ELSE Five,
                     hits[i].weight)])

\* deltas: for every key, the sum of values[from] * weight over the edges
\* into it whose endpoints are both keys of values.
deltaOf(vals, edgeList, key) ==
    LET into(e) == e.to = key /\ MapHas(vals, e.from) /\ MapHas(vals, e.to)
        hits == SelectSeq(edgeList, into)
    IN  RSum([i \in 1..Len(hits) |-> RMul(MapGet(vals, hits[i].from), hits[i].weight)])

\* A variant that does not saturate.
nextValueUnclamped(currentValue, baseline, delta, dtv, dampingv) ==
    RAdd(currentValue, RMul(dtv, RSub(delta, RMul(dampingv, RSub(currentValue, baseline)))))

\* The new value of one key from the values at the start of the step.
nextValue(currentValue, baseline, delta, dtv, dampingv) ==
    clamp(RAdd(currentValue,
               RMul(dtv, RSub(delta, RMul(dampingv, RSub(currentValue, baseline))))),
          NORMALIZED_RANGE.min, NORMALIZED_RANGE.max)

\* A variant that writes the new value of the first key before the deltas
\* of the later keys are computed, which then read it within the same step.
eulerStepSequential(vals, bases, edgeList, dtv, dampingv) ==
    LET next(from, i) ==
            nextValue(vals[i].value, MapGet(bases, vals[i].id),
                      deltaOf(from, edgeList, vals[i].id), dtv, dampingv)
        rest(written) ==
            [i \in 1..Len(vals) |->
                IF i = 1 THEN written[1] ELSE [id |-> vals[i].id, value |-> next(written, i)]]
    IN  IF vals = <<>> THEN vals
        ELSE rest(MapSet(vals, vals[1].id, next(vals, 1)))

\* One iteration of the integration loop: all deltas first, then all values.
eulerStep(vals, bases, edgeList, dtv, dampingv) ==
    [i \in 1..Len(vals) |->
        [id |-> vals[i].id,
         value |-> nextValue(vals[i].value, MapGet(bases, vals[i].id),
                             deltaOf(vals, edgeList, vals[i].id), dtv, dampingv)]]

-----------------------------------------------------------------------------
(* CycleDetector: the helpers of detectCycles.                             *)

\* The characters of the model's strings in the order of their code units:
\* tab, line feed, form feed, carriage return, then the printable ASCII
\* characters (the backquote left out).
AsciiOrder ==
    "\t\n\f\r" \o " !\"#$%&'(" \o ")" \o "*+,-./0123456789:;<=>?@ABCDEFGHIJKLMNOPQRSTUVWXYZ[\\]^_"
    \o "abcdefghijklmnopqrstuvwxyz{|}~"

\* a < b on strings: at the first position where they differ the smaller
\* code unit decides, and a proper prefix comes first.
StringLess(a, b) ==
    \E i \in 1..Len(b) :
        /\ i <= Len(a) + 1
        /\ SubSeq(a, 1, i - 1) = SubSeq(b, 1, i - 1)
        /\ \/ i > Len(a)
           \/ FirstOf(AsciiOrder, {SubSeq(a, i, i)}) < FirstOf(AsciiOrder, {SubSeq(b, i, i)})

\* a < b on ids: an array or an object counts as its string; two strings
\* compare by code unit, every other pair as numbers, where a NaN is
\* smaller than nothing, -Infinity below and +Infinity above every other
\* number.  It has no value where the conversion of a or b raises.
Less(a, b) ==
    LET primitive(v) == IF v.k \in {"array", "object"} THEN Str(ToPropertyKey(v)) ELSE v
        numberLess(x, y) ==
            IF x = NaN \/ y = NaN THEN FALSE
            ELSE IF x.d = 0 \/ y.d = 0
            THEN x # y /\ (x.n < 0 \/ y.n > 0) /\ (x.d = 0 => x.n < 0) /\ (y.d = 0 => y.n > 0)
            ELSE RLt(x, y)
        less(pa, pb) == IF pa.k = "string" /\ pb.k = "string" THEN StringLess(pa.s, pb.s)
                        ELSE numberLess(Number(pa), Number(pb))
    IN  less(primitive(a), primitive(b))

\* adjacency.get(current) || []: the edges leaving a node, in list order.
outgoing(edgeList, current) ==
    LET leaves(e) == e.from = current
    IN  SelectSeq(edgeList, leaves)

\* Array.from(new Set(list)): the first occurrences, in order.
RECURSIVE Unique(_)
Unique(list) ==
    IF list = <<>> THEN <<>>
    ELSE LET front == Unique(SubSeq(list, 1, Len(list) - 1))
             last == list[Len(list)]
         IN  IF \E i \in 1..Len(front) : front[i] = last THEN front
             ELSE Append(front, last)

\* Every id that is an endpoint of an edge.
cycleNodesOf(edgeList) ==
    Unique(Flatten([i \in 1..Len(edgeList) |-> <<edgeList[i].from, edgeList[i].to>>]))

RECURSIVE maxAbsFold(_)
maxAbsFold(edgeList) ==
    IF edgeList = <<>> THEN Int2Rat(0)
    ELSE RMax(maxAbsFold(SubSeq(edgeList, 1, Len(edgeList) - 1)),
              RAbs(edgeList[Len(edgeList)].weight))
\* The largest |weight| of the graph, or 1 when that is 0.
maxAbsOf(edgeList) ==
    IF maxAbsFold(edgeList).n = 0 THEN Int2Rat(1) ELSE maxAbsFold(edgeList)

\* a === b: the same value, NaN being equal to nothing, itself included.
StrictEquals(a, b) == a = b /\ ~(a.k = "number" /\ NumOf(a) = NaN)

\* A variant that compares x with the first element only.
IndexOfHead(list, x) == IF Len(list) > 0 /\ StrictEquals(list[1], x) THEN 1 ELSE 0

\* list.indexOf(x), counted from 1; 0 when absent.  The elements are
\* compared by ===.
IndexOf(list, x) ==
    IF \E i \in 1..Len(list) : StrictEquals(list[i], x)
    THEN CHOOSE i \in 1..Len(list) :
             StrictEquals(list[i], x) /\ \A j \in 1..(i - 1) : ~StrictEquals(list[j], x)
    ELSE 0

\* list.concat(v): an array argument is spread, its elements are
\* appended; every other value is appended as one element.
Concat(list, v) == IF IsArray(v) THEN list \o v.items ELSE Append(list, v)

\* Array.join on ids: every id as its string, undefined and null as the
\* empty string.  It has no value where the conversion of an element
\* raises.
RECURSIVE Join(_, _)
Join(list, sep) ==
    IF list = <<>> THEN ""
    ELSE LET text(v) == IF v.k \in {"undefined", "null"} THEN "" ELSE ToPropertyKey(v)
         IN  IF Len(list) = 1 THEN text(list[1])
             ELSE Join(SubSeq(list, 1, Len(list) - 1), sep) \o sep \o text(list[Len(list)])

\* The sort comparator of canonicalizeCycle: the first position where the
\* two rotations do not hold the same value by === decides, by <.  Two
\* distinct objects are different values and neither is smaller when their
\* strings are equal, which gives 1; so does NaN against NaN.
RECURSIVE compareRotations(_, _, _)
compareRotations(a, b, i) ==
    IF i > Len(a) THEN 0
    ELSE IF StrictEquals(a[i], b[i]) THEN compareRotations(a, b, i + 1)
    ELSE IF Less(a[i], b[i]) THEN -1 ELSE 1

Rotation(simple, i) == SubSeq(simple, i, Len(simple)) \o SubSeq(simple, 1, i - 1)

\* rotations.sort(comparator), on the start positions of the rotations of
\* simple.  The comparator is called as the sorting procedure calls it,
\* which matters when it is no consistent order.
\*
\* The place of pivot among work[1..right], which is sorted: the binary
\* search of the insertion sort, with left and right counted from 0.
RECURSIVE BinarySearch(_, _, _, _, _)
BinarySearch(simple, work, pivot, left, right) ==
    LET halve(mid) ==
            IF compareRotations(Rotation(simple, pivot), Rotation(simple, work[mid + 1]), 1) < 0
            THEN BinarySearch(simple, work, pivot, left, mid)
            ELSE BinarySearch(simple, work, pivot, mid + 1, right)
    IN  IF left >= right THEN left ELSE halve(left + ((right - left) \div 2))

\* Binary insertion sort of work from position start on, work[1..start-1]
\* being sorted: each element moves to the place the search gives.
RECURSIVE BinaryInsertionSort(_, _, _)
BinaryInsertionSort(simple, work, start) ==
    LET inserted(at) ==
            SubSeq(work, 1, at) \o <<work[start]>> \o SubSeq(work, at + 1, start - 1)
            \o SubSeq(work, start + 1, Len(work))
    IN  IF start > Len(work) THEN work
        ELSE BinaryInsertionSort(simple,
                                 inserted(BinarySearch(simple, work, work[start], 0, start - 1)),
                                 start + 1)

\* The sorted start positions: the longest run at the head of the list,
\* ascending or strictly descending as its first two elements are, is
\* taken as it is, reversed when descending; the rest is inserted.
SortedRotations(simple) ==
    LET work == [i \in 1..Len(simple) |-> i]
        before(i, j) == compareRotations(Rotation(simple, i), Rotation(simple, j), 1) < 0
        runLength(descending) ==
            CHOOSE k \in 2..Len(simple) :
                /\ \A i \in 3..k : before(i, i - 1) = descending
                /\ k = Len(simple) \/ before(k + 1, k) # descending
        reversed(k) == [i \in 1..Len(simple) |-> IF i <= k THEN k + 1 - i ELSE i]
        sorted(descending, k) ==
            BinaryInsertionSort(simple, IF descending THEN reversed(k) ELSE work, k + 1)
        run(descending) == sorted(descending, runLength(descending))
    IN  IF Len(simple) < 2 THEN work ELSE run(before(2, 1))

\* canonicalizeCycle(nodes) raises: the join, and before it the comparator
\* of the sort, converts the nodes but the last to strings.
canonicalizeCycleThrows(nodes) ==
    \E i \in 1..(Len(nodes) - 1) : ConvertThrows(nodes[i])

\* The key of a closed node sequence: the first of its sorted rotations,
\* closed again by concat and joined by "->"; "" stands for null.
canonicalizeCycle(nodes) ==
    LET first(simple) == Rotation(simple, SortedRotations(simple)[1])
        closed(canonical) == Join(Concat(canonical, canonical[1]), "->")
    IN  IF Len(nodes) <= 1 THEN ""
        ELSE closed(first(SubSeq(nodes, 1, Len(nodes) - 1)))

\* A variant that lets a zero weight count as positive.
RECURSIVE signProductNoZero(_)
signProductNoZero(weights) ==
    IF weights = <<>> THEN 1
    ELSE signProductNoZero(SubSeq(weights, 1, Len(weights) - 1))
         * (IF weights[Len(weights)].n < 0 THEN -1 ELSE 1)

\* The product of the signs of the weights, a zero weight counting as 0.
RECURSIVE signProduct(_)
signProduct(weights) ==
    IF weights = <<>> THEN 1
    ELSE signProduct(SubSeq(weights, 1, Len(weights) - 1))
         * (IF weights[Len(weights)].n = 0 THEN 0 ELSE MathSign(weights[Len(weights)]))

\* A variant with the two types exchanged.
cycleTypeSwapped(weights) == IF signProduct(weights) > 0 THEN "Balancing" ELSE "Reinforcing"

\* product > 0 ? "Reinforcing" : "Balancing".
cycleType(weights) == IF signProduct(weights) > 0 THEN "Reinforcing" ELSE "Balancing"

\* Math.round(clamp((avgAbs / maxAbs) * 100, 0, 100)), every operation on
\* doubles as the engine performs it: the sum of the |weight| from 0, its
\* quotient by the number of weights, the quotient by maxAbs, the product
\* with 100.
cycleDominance(weights, maxAbs) ==
    LET count == BFromInt(Len(weights))
        hundred == [m |-> BFromInt(100), e |-> 0]
        times100(ratio) == DRound(BNorm(BMulSmallC(ratio.m, 100, 0)), ratio.e)
        rounded(scaled) == DMathRound(IF DLt(hundred, scaled) THEN hundred ELSE scaled)
    IN  Once(weights, LAMBDA ws :
        Once(DSumAbs(ws), LAMBDA sum :
        Once(DQuot(sum.m, count, sum.e), LAMBDA avgAbs :
        Once(DFromRat(maxAbs), LAMBDA max :
        Once(DQuot(avgAbs.m, max.m, avgAbs.e - max.e), LAMBDA ratio :
        Once(times100(ratio), rounded))))))

\* A variant that keeps the closing node in nodes.
CycleRecordClosed(cycleNodes, cycleWeights, maxAbs) ==
    [ type      |-> cycleType(cycleWeights),
      dominance |-> cycleDominance(cycleWeights, maxAbs),
      nodes     |-> cycleNodes,
      chain     |-> Join(cycleNodes, " → "),
      weights   |-> cycleWeights ]

\* The record stored for a newly seen cycle.
CycleRecord(cycleNodes, cycleWeights, maxAbs) ==
    [ type      |-> cycleType(cycleWeights),
      dominance |-> cycleDominance(cycleWeights, maxAbs),
      nodes     |-> SubSeq(cycleNodes, 1, Len(cycleNodes) - 1),
      chain     |-> Join(cycleNodes, " → "),
      weights   |-> cycleWeights ]

-----------------------------------------------------------------------------
(* StateProjector.                                                         *)

\* A variant that reads a missing id as 0.
getValueZero(finalValues, name) ==
    IF MapHas(finalValues, Str(name)) THEN MapGet(finalValues, Str(name)) ELSE Int2Rat(0)

\* getValue(name): the final value of the id, 5 when it is missing.
getValue(finalValues, name) ==
    IF MapHas(finalValues, Str(name)) THEN MapGet(finalValues, Str(name)) ELSE Five

aggregateUnclamped(finalValues, positives, negatives) ==
    LET posValues == IF Len(positives) # 0
                     THEN [i \in 1..Len(positives) |-> getValue(finalValues, positives[i])]
                     ELSE <<Five>>
        negValues == IF Len(negatives) # 0
                     THEN [i \in 1..Len(negatives) |-> getValue(finalValues, negatives[i])]
                     ELSE <<Five>>
        posAvg == RDiv(RSum(posValues), Int2Rat(Len(posValues)))
        negAvg == RDiv(RSum(negValues), Int2Rat(Len(negValues)))
    IN  RSub(RAdd(Five, RMul(RSub(posAvg, Five), Rat(6, 10))),
             RMul(RSub(negAvg, Five), Rat(6, 10)))

aggregate(finalValues, positives, negatives) ==
    clamp(aggregateUnclamped(finalValues, positives, negatives), Int2Rat(1), Int2Rat(10))

deriveFiveFactorState(finalValues) ==
    [ vitality     |-> aggregate(finalValues, <<"Belonging", "VagalTone">>,
                                 <<"Isolation", "HPA", "Inflammation", "Neurodegeneration">>),
      cognition    |-> aggregate(finalValues, <<"Meaning", "Belonging">>,
                                 <<"Isolation", "Neurodegeneration", "Withdrawal">>),
      emotion      |-> aggregate(finalValues, <<"Belonging", "Meaning", "VagalTone">>,
                                 <<"Isolation", "Withdrawal", "HPA">>),
      adaptability |-> aggregate(finalValues, <<"VagalTone", "Meaning", "Belonging">>,
                                 <<"HPA", "Inflammation", "Isolation">>),
      meaning      |-> aggregate(finalValues, <<"Meaning", "Belonging">>,
                                 <<"Isolation", "Withdrawal">>) ]

-----------------------------------------------------------------------------
(* The inputs of an invocation.                                            *)

\* Bounds of the input sets.
MaxSteps == 2
MaxEdges == 2

Half == Rat(1, 2)

VarObj(id, value, baseline) ==
    Obj(<<"id", "value", "baseline">>, <<Str(id), Num(value), Num(baseline)>>)
EdgeObj(from, to, weight) ==
    Obj(<<"from", "to", "weight">>, <<Str(from), Str(to), Num(weight)>>)
GraphObj(vars, edgeItems) == Obj(<<"variables", "edges">>, <<vars, edgeItems>>)
OptsObj(initialState, steps, dt, damping) ==
    Obj(<<"initialState", "steps", "dt", "damping">>, <<initialState, steps, dt, damping>>)
StateObj(vitality, cognition, emotion, adaptability, meaning) ==
    Obj(<<"vitality", "cognition", "emotion", "adaptability", "meaning">>,
        <<vitality, cognition, emotion, adaptability, meaning>>)

EmptyObject == Obj(<<>>, <<>>)

\* Edge lists over two ids: every list of 1..MaxEdges edges, self-loops,
\* both directions, repeated edges and zero weights included.
CycleWeights == {Rat(-1, 2), Int2Rat(0), Int2Rat(1)}
CycleEdgeItems == {EdgeObj(f, t, w) : f \in {"A", "B"}, t \in {"A", "B"}, w \in CycleWeights}
CycleEdgeLists == UNION {[1..n -> CycleEdgeItems] : n \in 1..MaxEdges}
CycleGraphs == {GraphObj(Arr(<<Str("A"), Str("B")>>), Arr(l)) : l \in CycleEdgeLists}
CycleOpts == {OptsObj(Undefined, NumI(1), Num(Half), Num(Half))}

\* One variable with a self-loop: values and baselines inside and outside
\* [0,10], a gaining and a draining loop.
LoopGraphs ==
    {GraphObj(Arr(<<VarObj("X", v, b)>>), Arr(<<EdgeObj("X", "X", w)>>)) :
        v \in {Five, Int2Rat(12), Int2Rat(-3)}, b \in {Five, Int2Rat(11)},
        w \in {Rat(-1, 2), Int2Rat(1)}}
LoopOpts ==
    {OptsObj(Undefined, NumI(n), Num(dtv), Num(k)) :
        n \in 1..MaxSteps, dtv \in {Int2Rat(1), Half}, k \in {Int2Rat(0), Half}}
    \cup {OptsObj(Undefined, st, NumI(1), NumI(0)) : st \in {Undefined, NumI(0), Num(Rat(5, 2)), Str("7")}}
    \cup {OptsObj(Undefined, NumI(1), Undefined, Undefined)}

\* Five-factor states: complete, partial, out of range, not numbers, a null
\* factor, and values that are not objects.
InitialStates ==
    { Undefined,
      StateObj(NumI(8), NumI(2), NumI(6), NumI(4), NumI(3)),
      Obj(<<"vitality">>, <<NumI(3)>>),
      StateObj(NumI(20), NumI(-4), NumI(20), NumI(1), NumI(14)),
      Obj(<<"emotion", "meaning", "vitality">>, <<Null, Str("7"), Str("high")>>),
      Obj(<<"emotion", "meaning">>, <<Null, NumI(7)>>),
      Str("high") }

\* Graphs over the canonical ids and a custom one, as a keyed mapping of
\* numbers: the extremes of the projection, and values the anchors replace.
KeyedGraph(hi, lo) ==
    Obj(<<"variables", "edges">>,
        << Obj(<<"Belonging", "VagalTone", "Meaning", "Isolation", "HPA", "Inflammation",
                 "Neurodegeneration", "Withdrawal", "A">>,
               <<Num(hi), Num(hi), Num(hi), Num(lo), Num(lo), Num(lo), Num(lo), Num(lo),
                 NumI(3)>>),
           Arr(<<EdgeObj("A", "Meaning", Half), EdgeObj("Y", "A", Int2Rat(1))>>) >>)
AnchorGraphs ==
    { KeyedGraph(Int2Rat(10), Int2Rat(0)), KeyedGraph(Int2Rat(0), Int2Rat(10)),
      KeyedGraph(Int2Rat(7), Int2Rat(4)) }
AnchorOpts ==
    {OptsObj(st, NumI(n), Num(Half), Num(Half)) : st \in InitialStates, n \in 1..MaxSteps}

\* The empty description, which falls back on the template.
TemplateGraphs == {EmptyObject, Undefined}
\* The template's decimal values are integrated for one or two steps only,
\* which keeps the exact denominators small.
TemplateOpts ==
    {OptsObj(st, NumI(n), Num(Half), Num(Half)) : st \in InitialStates, n \in {1, 2}}

\* Arguments on which a property read fails.
ThrowingInputs ==
    {<<Null, OptsObj(Undefined, NumI(1), NumI(1), NumI(0))>>,
     <<EmptyObject, Null>>}

\* Variables named like a method every object inherits.
InheritedGraphs ==
    {GraphObj(Arr(<<Str(id)>>), Arr(<<EdgeObj("X", "X", Int2Rat(1))>>)) :
        id \in {"constructor", "toString", "__defineGetter__", "__lookupSetter__", "__proto__"}}
InheritedOpts ==
    {OptsObj(st, NumI(1), NumI(1), NumI(0)) :
        st \in {Undefined, Obj(<<"vitality">>, <<NumI(3)>>)}}

\* Descriptions of which one list normalizes to the empty list: variables
\* without edges, edges without variables, and a description whose only
\* key is its edge list.
HalfGraphs ==
    { GraphObj(Arr(<<VarObj("A", Int2Rat(3), Five)>>), Arr(<<>>)),
      Obj(<<"variables">>, <<Arr(<<Str("A")>>)>>),
      GraphObj(Arr(<<>>), Arr(<<EdgeObj("A", "A", Half)>>)),
      Obj(<<"edges">>, <<Arr(<<EdgeObj("A", "A", Half)>>)>>) }

\* Variable arrays that list an id twice.
DuplicateGraphs ==
    { GraphObj(Arr(<<VarObj("A", Int2Rat(1), Five), VarObj("A", Int2Rat(9), Int2Rat(2))>>),
               Arr(<<EdgeObj("A", "A", Half)>>)),
      GraphObj(Arr(<<VarObj("A", Int2Rat(1), Five), Str("B"), Str("A")>>),
               Arr(<<EdgeObj("A", "B", Half)>>)) }

\* Two variables A and B and two edges over A, B and an id Y that is no
\* variable: edges from, to and through Y, self-loops included.
DanglingEdgeItems ==
    {EdgeObj(f, t, w) : f \in {"A", "B", "Y"}, t \in {"A", "B", "Y"},
                        w \in {Half, Int2Rat(-1)}}
DanglingGraphs ==
    {GraphObj(Arr(<<VarObj("A", Int2Rat(4), Five), VarObj("B", Int2Rat(6), Five)>>),
              Arr(<<e1, e2>>)) : e1 \in DanglingEdgeItems, e2 \in DanglingEdgeItems}
DanglingOpts == {OptsObj(Undefined, NumI(2), Num(Half), Num(Half))}

\* Graphs that hold some of the canonical ids and a custom one.
PartialGraphs ==
    { Obj(<<"variables", "edges">>,
          << Obj(<<"Belonging", "HPA", "A">>, <<NumI(b), NumI(h), NumI(3)>>),
             Arr(<<EdgeObj("Belonging", "HPA", Rat(-1, 2)), EdgeObj("A", "Belonging", Half)>>) >>) :
        b \in {1, 8}, h \in {2, 9} }

\* The three edge shapes, each with complete edges and with edges that
\* lack their from or their to: an array of edge objects, a mapping of
\* edge records, and a mapping from a source id to a list of targets
\* (strings, edge objects, a number).
ShapeGraphs ==
    { GraphObj(Arr(<<Str("A"), Str("B")>>), shaped) : shaped \in
        { Arr(<< EdgeObj("A", "B", Int2Rat(1)),
                 Obj(<<"from", "weight">>, <<Str("A"), NumI(1)>>),
                 Obj(<<"to", "weight">>, <<Str("B"), NumI(1)>>) >>),
          Obj(<<"e1", "e2", "e3">>,
              << EdgeObj("A", "B", Int2Rat(1)),
                 Obj(<<"to", "weight">>, <<Str("A"), NumI(1)>>),
                 Obj(<<"from", "weight">>, <<Str("A"), NumI(1)>>) >>),
          Obj(<<"A", "B">>,
              << Arr(<<Str("B"), Obj(<<"to", "weight">>, <<Str("A"), NumI(1)>>)>>),
                 Arr(<<Obj(<<"weight">>, <<NumI(1)>>)>>) >>),
          Obj(<<"A">>, <<Arr(<<NumI(5), Str("A")>>)>>) } }

\* Edges without a usable weight in each shape: no weight field, a null
\* one, one that is no number, NaN; and lists of bare target ids.
WeightlessGraphs ==
    { GraphObj(Arr(<<Str("A"), Str("B")>>), shaped) : shaped \in
        { Arr(<< Obj(<<"from", "to">>, <<Str("A"), Str("B")>>),
                 Obj(<<"source", "target", "weight">>, <<Str("B"), Str("A"), Str("X")>>),
                 Obj(<<"from", "to", "weight", "strength">>,
                     <<Str("A"), Str("A"), Num(NaN), NumI(1)>>) >>),
          Obj(<<"e1", "e2">>,
              << Obj(<<"from", "to", "weight">>, <<Str("A"), Str("B"), Null>>),
                 Obj(<<"to", "value">>, <<Str("e1"), Str("X")>>) >>),
          Obj(<<"A", "B">>,
              << Arr(<<Obj(<<"to">>, <<Str("B")>>)>>),
                 Arr(<<Obj(<<"target", "strength">>, <<Str("A"), Num(NaN)>>)>>) >>),
          Obj(<<"A", "B">>, <<Arr(<<Str("B")>>), Arr(<<Str("A")>>)>>),
          Obj(<<"A", "B">>,
              << Arr(<<Str("B"), Obj(<<"to">>, <<Str("A")>>)>>),
                 Arr(<<Str("A"), Str(""), Obj(<<"to", "weight">>, <<Str("B"), Str("X")>>)>>) >>) } }

\* Edge lists over three ids: the two triangles A->B->C->A and A->C->B->A
\* with the three 2-cycles they make, in two orders of the list, and one
\* triangle listed from its second edge; and an edge list over the ids "A"
\* and "A->A", a self-loop and a 2-cycle.
TriangleEdgeLists ==
    { << EdgeObj("A", "B", Int2Rat(1)), EdgeObj("B", "C", Int2Rat(1)),
         EdgeObj("C", "A", Rat(-1, 2)), EdgeObj("A", "C", Int2Rat(1)),
         EdgeObj("C", "B", Int2Rat(1)), EdgeObj("B", "A", Int2Rat(1)) >>,
      << EdgeObj("B", "A", Int2Rat(1)), EdgeObj("C", "B", Int2Rat(1)),
         EdgeObj("A", "C", Int2Rat(1)), EdgeObj("C", "A", Rat(-1, 2)),
         EdgeObj("B", "C", Int2Rat(1)), EdgeObj("A", "B", Int2Rat(1)) >>,
      << EdgeObj("B", "C", Int2Rat(1)), EdgeObj("C", "A", Rat(-1, 2)),
         EdgeObj("A", "B", Int2Rat(1)) >>,
      << EdgeObj("A->A", "A->A", Int2Rat(1)), EdgeObj("A", "A->A", Int2Rat(1)),
         EdgeObj("A->A", "A", Int2Rat(1)) >>,
      << EdgeObj("A", "A->A", Int2Rat(1)), EdgeObj("A->A", "A", Int2Rat(1)),
         EdgeObj("A->A", "A->A", Rat(-1, 2)) >> }
TriangleGraphs ==
    {GraphObj(Arr(<<Str("A"), Str("B"), Str("C")>>), Arr(l)) : l \in TriangleEdgeLists}

\* Cycles whose dominance is a half away from an integer when it is
\* computed without rounding errors.
RoundingGraphs ==
    { GraphObj(Arr(<<Str("A"), Str("B")>>), Arr(l)) : l \in
        { << EdgeObj("A", "B", Rat(3, 2)), EdgeObj("B", "A", Int2Rat(10)) >>,
          << EdgeObj("A", "B", Rat(3, 4)), EdgeObj("B", "A", Int2Rat(5)) >>,
          << EdgeObj("A", "A", Rat(29, 100)), EdgeObj("B", "B", Int2Rat(2)) >>,
          << EdgeObj("A", "A", Rat(9, 100)), EdgeObj("B", "B", Rat(2, 5)) >>,
          << EdgeObj("A", "B", Int2Rat(1)), EdgeObj("B", "A", Int2Rat(2)) >> } }

\* Variables whose ids are property names with a meaning of their own:
\* __proto__, array indices, and a number beside the string it is written
\* as.
PropertyGraphs ==
    { GraphObj(Arr(<<VarObj("A", Int2Rat(1), Five), VarObj("__proto__", Int2Rat(3), Five),
                     VarObj("B", Int2Rat(2), Five)>>),
               Arr(<<EdgeObj("__proto__", "A", Half), EdgeObj("A", "__proto__", Half)>>)),
      GraphObj(Arr(<<Str("__proto__")>>), Arr(<<EdgeObj("__proto__", "__proto__", Half)>>)),
      GraphObj(Arr(<<Str("b"), Str("1"), Str("0")>>), Arr(<<EdgeObj("b", "1", Half)>>)),
      GraphObj(Arr(<<Obj(<<"id", "value">>, <<NumI(1), NumI(2)>>),
                     VarObj("1", Int2Rat(4), Five), Str("b")>>),
               Arr(<<EdgeObj("1", "b", Half),
                     Obj(<<"from", "to", "weight">>, <<NumI(1), Str("b"), NumI(-1)>>)>>)) }

\* Values, baselines and weights written as strings.
NumericStringGraphs ==
    { Obj(<<"variables", "edges">>,
          << Obj(<<"A", "B", "C">>,
                 <<Str(a), Str(b), Obj(<<"value", "baseline">>, <<Str("2.5"), Str(a)>>)>>),
             Arr(<<Obj(<<"from", "to", "weight">>, <<Str("A"), Str("B"), Str(w)>>),
                   Obj(<<"from", "to", "weight">>, <<Str("B"), Str("C"), Arr(<<Str(w)>>)>>)>>) >>) :
        a \in {"3", " 7 ", "0x10"}, b \in {" ", "1e1", "-2"}, w \in {"0.5", "-1", ".5e0", "1,5"} }

\* Variables and edges whose ids are any values.
IdVar(id, value) == Obj(<<"id", "value">>, <<id, Num(value)>>)
IdEdge(from, to, weight) == Obj(<<"from", "to", "weight">>, <<from, to, Num(weight)>>)

\* Ids that are arrays and objects, written out at every occurrence, as
\* in a description parsed from JSON: each occurrence is an id of its own,
\* so that an edge names no variable, two variables of equal text are two
\* variables and no path returns to its start.
IdentityGraphs ==
    { GraphObj(Arr(<<IdVar(Arr(<<Str("a")>>), Int2Rat(2)), Str("K")>>),
               Arr(<<IdEdge(Arr(<<Str("a")>>), Str("K"), Int2Rat(1)),
                     IdEdge(Str("K"), Arr(<<Str("a")>>), Int2Rat(1))>>)),
      GraphObj(Arr(<<IdVar(Arr(<<Str("a")>>), Int2Rat(1)), IdVar(Arr(<<Str("a")>>), Int2Rat(9))>>),
               Arr(<<IdEdge(Arr(<<Str("a")>>), Arr(<<Str("a")>>), Int2Rat(1))>>)),
      GraphObj(Arr(<<Str("B"), Str("C")>>),
               Arr(<<IdEdge(Arr(<<Str("a")>>), Str("B"), Int2Rat(1)),
                     IdEdge(Arr(<<Str("a")>>), Str("C"), Int2Rat(1))>>)),
      GraphObj(Arr(<<IdVar(Obj(<<"k">>, <<NumI(1)>>), Int2Rat(3))>>),
               Arr(<<IdEdge(Obj(<<"k">>, <<NumI(1)>>), Obj(<<"k">>, <<NumI(1)>>), Half)>>)) }

\* An array whose elements repeat, NaN among them.
NaNArray ==
    Arr(<<Str("a"), Str("b"), Num(NaN), Str("b"), Num(NaN), Str("a"), Num(NaN)>>)

\* Ids that are one array or object used at every occurrence, as a caller
\* that builds the description in code can pass them: a self-loop and a
\* 2-cycle on an array of two strings, a self-loop on the empty array, on
\* a plain object, and on an array that holds NaN at several places.
SharedGraphs ==
    { GraphObj(Arr(<<IdVar(Shared(1, Arr(<<Str("x"), Str("y")>>)), Int2Rat(4))>>),
               Arr(<<IdEdge(Shared(1, Arr(<<Str("x"), Str("y")>>)),
                            Shared(1, Arr(<<Str("x"), Str("y")>>)), Half)>>)),
      GraphObj(Arr(<<Str("z"), IdVar(Shared(1, Arr(<<Str("x"), Str("y")>>)), Int2Rat(4))>>),
               Arr(<<IdEdge(Str("z"), Shared(1, Arr(<<Str("x"), Str("y")>>)), Int2Rat(1)),
                     IdEdge(Shared(1, Arr(<<Str("x"), Str("y")>>)), Str("z"), Rat(-1, 2))>>)),
      GraphObj(Arr(<<IdVar(Shared(2, Arr(<<>>)), Int2Rat(4))>>),
               Arr(<<IdEdge(Shared(2, Arr(<<>>)), Shared(2, Arr(<<>>)), Half)>>)),
      GraphObj(Arr(<<IdVar(Shared(3, Obj(<<"k">>, <<NumI(1)>>)), Int2Rat(4))>>),
               Arr(<<IdEdge(Shared(3, Obj(<<"k">>, <<NumI(1)>>)),
                            Shared(3, Obj(<<"k">>, <<NumI(1)>>)), Half)>>)),
      GraphObj(Arr(<<Str("Q")>>),
               Arr(<<IdEdge(Shared(5, NaNArray), Shared(5, NaNArray), Int2Rat(1))>>)) }

\* An object whose conversion to a string or number raises.
Unconvertible == Obj(<<"toString">>, <<NumI(1)>>)

\* Descriptions that hold the unconvertible object: as the value or the
\* baseline of a kept variable (alone and in an array), as the weight of a
\* kept edge in each shape, as the id of a variable, as the value of an
\* item and the weight of an edge that are dropped, as the two ends of an
\* edge written out, and as one object at both ends of a self-loop.
ConversionGraphs ==
    { GraphObj(Arr(<<Obj(<<"id", "value">>, <<Str("A"), Unconvertible>>)>>), Arr(<<>>)),
      GraphObj(Arr(<<Obj(<<"id", "baseline">>, <<Str("A"), Arr(<<Unconvertible>>)>>)>>), Arr(<<>>)),
      GraphObj(Obj(<<"A">>, <<Obj(<<"start">>, <<Unconvertible>>)>>), Arr(<<>>)),
      GraphObj(Arr(<<Str("A")>>),
               Arr(<<Obj(<<"from", "to", "weight">>, <<Str("A"), Str("A"), Unconvertible>>)>>)),
      GraphObj(Arr(<<Str("A")>>),
               Obj(<<"e1">>, <<Obj(<<"to", "strength">>, <<Str("A"), Unconvertible>>)>>)),
      GraphObj(Arr(<<Str("A")>>),
               Obj(<<"A">>, <<Arr(<<Str("A"), Obj(<<"value">>, <<Unconvertible>>)>>)>>)),
      GraphObj(Arr(<<IdVar(Unconvertible, Int2Rat(1))>>), Arr(<<>>)),
      GraphObj(Arr(<<Obj(<<"value">>, <<Unconvertible>>), Str("A")>>),
               Arr(<<Obj(<<"from", "weight">>, <<Str("A"), Unconvertible>>),
                     IdEdge(Str("A"), Str("A"), Half)>>)),
      GraphObj(Arr(<<Str("A")>>), Arr(<<IdEdge(Unconvertible, Unconvertible, Half)>>)),
      GraphObj(Arr(<<Str("A")>>),
               Arr(<<IdEdge(Shared(4, Unconvertible), Shared(4, Unconvertible), Half)>>)),
      GraphObj(Arr(<<Str("A")>>),
               Arr(<<IdEdge(Str("A"), Shared(4, Unconvertible), Half),
                     IdEdge(Shared(4, Unconvertible), Str("A"), Half)>>)) }
\* Five-factor states with a factor that does not convert: a factor the
\* template's variables read, among others.
ConversionOpts ==
    {OptsObj(st, NumI(1), Num(Half), Num(Half)) :
        st \in {Undefined, Obj(<<"vitality">>, <<NumI(3)>>),
                Obj(<<"emotion", "vitality">>, <<Unconvertible, NumI(3)>>)}}

\* Cycles over numbers and strings that are no numbers, between which <
\* is never true (a 2-cycle, a triangle and a cycle of four), and over
\* strings that differ in a white space character.
MixedGraphs ==
    { GraphObj(Arr(<<Str("a"), Str("b")>>),
               Arr(<<IdEdge(Str("b"), NumI(1), Int2Rat(1)), IdEdge(NumI(1), Str("b"), Half)>>)),
      GraphObj(Arr(<<Str("a"), Str("b")>>),
               Arr(<<IdEdge(Str("b"), NumI(1), Int2Rat(1)), IdEdge(NumI(1), Str("a"), Int2Rat(1)),
                     IdEdge(Str("a"), Str("b"), Int2Rat(1))>>)),
      GraphObj(Arr(<<Str("x"), Str("y")>>),
               Arr(<<IdEdge(NumI(2), Str("x"), Int2Rat(1)), IdEdge(Str("x"), NumI(1), Int2Rat(1)),
                     IdEdge(NumI(1), Str("y"), Half), IdEdge(Str("y"), NumI(2), Int2Rat(1))>>)),
      GraphObj(Arr(<<Str("a\nb"), Str("a\tb")>>),
               Arr(<<IdEdge(Str("a\nb"), Str("a\tb"), Int2Rat(1)),
                     IdEdge(Str("a\tb"), Str("a\nb"), Int2Rat(1))>>)) }

\* The descriptions and options the model invokes the engine on.
Descriptions ==
    (CycleGraphs \X CycleOpts) \cup (LoopGraphs \X LoopOpts)
    \cup (AnchorGraphs \X AnchorOpts) \cup (TemplateGraphs \X TemplateOpts)
    \cup ThrowingInputs \cup (InheritedGraphs \X InheritedOpts)
    \cup (HalfGraphs \X CycleOpts) \cup (DuplicateGraphs \X CycleOpts)
    \cup (DanglingGraphs \X DanglingOpts) \cup (PartialGraphs \X AnchorOpts)
    \cup (ShapeGraphs \X CycleOpts) \cup (TriangleGraphs \X CycleOpts)
    \cup (WeightlessGraphs \X CycleOpts) \cup (RoundingGraphs \X CycleOpts)
    \cup (PropertyGraphs \X DanglingOpts) \cup (NumericStringGraphs \X CycleOpts)
    \cup (IdentityGraphs \X CycleOpts) \cup (SharedGraphs \X CycleOpts)
    \cup (ConversionGraphs \X ConversionOpts) \cup (TemplateGraphs \X ConversionOpts)
    \cup (MixedGraphs \X CycleOpts)

\* The arguments of an invocation: the values the two descriptions denote.
Arguments(in) == <<Evaluate(in[1], <<1>>), Evaluate(in[2], <<2>>)>>

Inputs == {Arguments(in) : in \in Descriptions}

-----------------------------------------------------------------------------
(* The state.                                                              *)

VARIABLES
    pc,            \* "idle", "integrate", "detect", "done", "threw"
    moduleFactors, \* the module-level association table VARIABLE_FACTORS
    graph, opts,   \* the arguments of the invocation (defaults applied)
    variables,     \* anchoredVariables
    edges,         \* normalizedEdges
    values,        \* runEulerSimulation: the values map
    baselines,     \* runEulerSimulation: the baselines map
    timeSeries,    \* runEulerSimulation: the snapshots
    step,          \* runEulerSimulation: the loop counter
    stack,         \* detectCycles: the path stack
    edgeStack,     \* detectCycles: the weight stack
    iter,          \* detectCycles: per active visit, the position of its for-of loop
    rootIdx,       \* detectCycles: the position of nodes.forEach
    seen,          \* detectCycles: the seen map, [key, record] in insertion order
    result,        \* the returned {loopsDetected, timeSeries, newState}
    memo           \* history variable: one earlier invocation, its arguments and result

vars == << pc, moduleFactors, graph, opts, variables, edges, values, baselines,
           timeSeries, step, stack, edgeStack, iter, rootIdx, seen, result, memo >>

NoResult == [set |-> FALSE, loopsDetected |-> <<>>, timeSeries |-> <<>>,
             newState |-> deriveFiveFactorState(<<>>)]
NoMemo == [set |-> FALSE, between |-> FALSE, graph |-> Undefined, opts |-> Undefined,
           result |-> NoResult]

Init ==
    /\ pc = "idle"
    /\ moduleFactors = VARIABLE_FACTORS
    /\ graph = Undefined
    /\ opts = Undefined
    /\ variables = <<>>
    /\ edges = <<>>
    /\ values = <<>>
    /\ baselines = <<>>
    /\ timeSeries = <<>>
    /\ step = 0
    /\ stack = <<>>
    /\ edgeStack = <<>>
    /\ iter = <<>>
    /\ rootIdx = 0
    /\ seen = <<>>
    /\ result = NoResult
    /\ memo = NoMemo

-----------------------------------------------------------------------------
(* runCausalSimulation, one action per stage and per loop iteration.       *)

\* A default parameter value: undefined is replaced by {}.
Arg(v) == IF v.k = "undefined" THEN EmptyObject ELSE v

\* The entry code raises a TypeError: graph.variables is read of a null
\* graph, opts.initialState of a null opts; the normalization converts a
\* value or weight whose conversion raises; the anchoring raises; or
\* snapshot 0 meets an id whose conversion raises.
Throws(g, o) ==
    IF ReadThrows(Arg(g)) \/ ReadThrows(Arg(o)) THEN TRUE
    ELSE IF normalizeVariablesThrows(Arg(g)) \/ normalizeEdgesThrows(Arg(g)) THEN TRUE
    ELSE LET later(variableList) ==
                 \/ anchorsThrow(moduleFactors, variableList, Get(Arg(o), "initialState"))
                 \/ snapshotThrows(variableList)
         IN  later(normalizedVariablesOf(Arg(g)))

\* const seen = new Map(), made anew by every detectCycles; the variant
\* keeps one map for the whole module.
staleSeen == seen
newSeen == <<>>

\* The remembered invocation, once another one with other arguments starts.
memoAfterCall(g, o) ==
    IF memo.set /\ (memo.graph # Arg(g) \/ memo.opts # Arg(o))
    THEN [memo EXCEPT !.between = TRUE] ELSE memo

\* The loop condition of the integration loop, and a variant that stops
\* one step early.
loopContinuesStrict(stepNo, steps) == stepNo < steps
loopContinues(stepNo, steps) == stepNo <= steps

\* stack.length - idx >= 1, idx counted from 0: the edge closes a cycle.
closesCycle(stackLength, idx) == stackLength - idx >= 1

\* Entry: normalize, fall back on the template, anchor, build the values
\* and baselines maps and capture snapshot 0.
Call(g, o) ==
    LET start(anchored) ==
            /\ graph' = Arg(g)
            /\ opts' = Arg(o)
            /\ variables' = anchored
            /\ edges' = normalizedEdgesOf(Arg(g))
            /\ values' = initialValues(anchored)
            /\ baselines' = initialBaselines(anchored)
            /\ timeSeries' = <<Snapshot(0, initialValues(anchored))>>
            /\ step' = 1
            /\ result' = NoResult
            /\ pc' = "integrate"
            /\ memo' = memoAfterCall(g, o)
            /\ UNCHANGED <<moduleFactors, stack, edgeStack, iter, rootIdx, seen>>
    IN  start(applyInitialStateAnchors(moduleFactors, normalizedVariablesOf(Arg(g)),
                                       Get(Arg(o), "initialState")))

Raise(g, o) ==
    /\ graph' = Arg(g)
    /\ opts' = Arg(o)
    /\ result' = NoResult
    /\ pc' = "threw"
    /\ memo' = memoAfterCall(g, o)
    /\ UNCHANGED <<moduleFactors, variables, edges, values, baselines, timeSeries, step,
                   stack, edgeStack, iter, rootIdx, seen>>

Invoke ==
    /\ pc = "idle"
    /\ \E in \in Inputs : ~Throws(in[1], in[2]) /\ Call(in[1], in[2])

InvokeThrows ==
    /\ pc = "idle"
    /\ \E in \in Inputs : Throws(in[1], in[2]) /\ Raise(in[1], in[2])

\* One iteration of the integration loop, with its snapshot.
EulerStep ==
    /\ pc = "integrate"
    /\ loopContinues(step, stepsOf(opts))
    /\ values' = eulerStep(values, baselines, edges, dtOf(opts), dampingOf(opts))
    /\ timeSeries' = Append(timeSeries, Snapshot(step, values'))
    /\ step' = step + 1
    /\ UNCHANGED <<pc, moduleFactors, graph, opts, variables, edges, baselines,
                   stack, edgeStack, iter, rootIdx, seen, result, memo>>

\* The loop is over: runEulerSimulation returns and detectCycles starts.
StartDetect ==
    /\ pc = "integrate"
    /\ ~loopContinues(step, stepsOf(opts))
    /\ pc' = "detect"
    /\ seen' = newSeen
    /\ stack' = <<>>
    /\ edgeStack' = <<>>
    /\ iter' = <<>>
    /\ rootIdx' = 1
    /\ UNCHANGED <<moduleFactors, graph, opts, variables, edges, values, baselines,
                   timeSeries, step, result, memo>>

\* nodes.forEach: visit(node, node) pushes the root.
VisitRoot ==
    /\ pc = "detect"
    /\ stack = <<>>
    /\ rootIdx <= Len(cycleNodesOf(edges))
    /\ stack' = <<cycleNodesOf(edges)[rootIdx]>>
    /\ iter' = <<1>>
    /\ UNCHANGED <<pc, moduleFactors, graph, opts, variables, edges, values, baselines,
                   timeSeries, step, edgeStack, rootIdx, seen, result, memo>>

\* The seen map after the cycle closed by an edge to stack[idx] is offered.
seenAfter(seenMap, cycleNodes, cycleWeights, maxAbs) ==
    LET offered(key) ==
            IF key # "" /\ ~\E i \in 1..Len(seenMap) : seenMap[i].key = key
            THEN Append(seenMap, [key |-> key, record |-> CycleRecord(cycleNodes, cycleWeights, maxAbs)])
            ELSE seenMap
    IN  offered(canonicalizeCycle(cycleNodes))

\* The edge at the for-of loop of the innermost visit leads to a node on
\* the stack and canonicalizeCycle raises on the cycle it closes.
closingRaises(pathStack, edge) ==
    LET closing(idx) ==
            /\ idx # 0
            /\ closesCycle(Len(pathStack), idx - 1)
            /\ canonicalizeCycleThrows(Concat(SubSeq(pathStack, idx, Len(pathStack)), edge.to))
    IN  closing(IndexOf(pathStack, edge.to))

\* One iteration of the for-of loop of the innermost visit: the edge's
\* weight is pushed; a target on the stack closes a cycle (the stack from
\* the target on, closed by concat) and the weight is popped again, any
\* other target is visited.
VisitEdge ==
    /\ pc = "detect"
    /\ stack # <<>>
    /\ iter[Len(iter)] <= Len(outgoing(edges, stack[Len(stack)]))
    /\ ~closingRaises(stack, outgoing(edges, stack[Len(stack)])[iter[Len(iter)]])
    /\ LET edge == outgoing(edges, stack[Len(stack)])[iter[Len(iter)]]
           pushed == Append(edgeStack, edge.weight)
           idx == IndexOf(stack, edge.to)
       IN  IF idx # 0
           THEN /\ seen' = IF closesCycle(Len(stack), idx - 1)
                           THEN seenAfter(seen, Concat(SubSeq(stack, idx, Len(stack)), edge.to),
                                          SubSeq(pushed, idx, Len(pushed)), maxAbsOf(edges))
                           ELSE seen
                /\ iter' = [iter EXCEPT ![Len(iter)] = @ + 1]
                /\ UNCHANGED <<stack, edgeStack>>
           ELSE /\ stack' = Append(stack, edge.to)
                /\ edgeStack' = pushed
                /\ iter' = Append(iter, 1)
                /\ UNCHANGED seen
    /\ UNCHANGED <<pc, moduleFactors, graph, opts, variables, edges, values, baselines,
                   timeSeries, step, rootIdx, result, memo>>

\* The iteration raises: the edge closes a cycle of which a node does not
\* convert to a string.  The weight of the edge has been pushed (line 147)
\* when the TypeError leaves detectCycles and runCausalSimulation; nothing
\* is returned.
VisitEdgeThrows ==
    /\ pc = "detect"
    /\ stack # <<>>
    /\ iter[Len(iter)] <= Len(outgoing(edges, stack[Len(stack)]))
    /\ closingRaises(stack, outgoing(edges, stack[Len(stack)])[iter[Len(iter)]])
    /\ edgeStack' = Append(edgeStack, outgoing(edges, stack[Len(stack)])[iter[Len(iter)]].weight)
    /\ pc' = "threw"
    /\ UNCHANGED <<moduleFactors, graph, opts, variables, edges, values, baselines,
                   timeSeries, step, stack, iter, rootIdx, seen, result, memo>>

\* The for-of loop of the innermost visit is over: it pops its node and
\* returns; the caller pops the weight of the edge it followed, and
\* nodes.forEach clears both stacks after a root.
VisitReturn ==
    /\ pc = "detect"
    /\ stack # <<>>
    /\ iter[Len(iter)] > Len(outgoing(edges, stack[Len(stack)]))
    /\ IF Len(stack) > 1
       THEN /\ stack' = SubSeq(stack, 1, Len(stack) - 1)
            /\ edgeStack' = SubSeq(edgeStack, 1, Len(edgeStack) - 1)
            /\ iter' = [SubSeq(iter, 1, Len(iter) - 1) EXCEPT ![Len(iter) - 1] = @ + 1]
            /\ UNCHANGED rootIdx
       ELSE /\ stack' = <<>>
            /\ edgeStack' = <<>>
            /\ iter' = <<>>
            /\ rootIdx' = rootIdx + 1
    /\ UNCHANGED <<pc, moduleFactors, graph, opts, variables, edges, values, baselines,
                   timeSeries, step, seen, result, memo>>

\* A variant that returns only the cycles among the declared variables.
loopsAmongVariables(seenMap) ==
    LET declared(entry) ==
            \A n \in 1..Len(entry.record.nodes) :
                \E v \in 1..Len(variables) : variables[v].id = entry.record.nodes[n]
        kept == SelectSeq(seenMap, declared)
    IN  [i \in 1..Len(kept) |-> kept[i].record]

\* return Array.from(seen.values()): the records in insertion order.
loopsReturned(seenMap) == [i \in 1..Len(seenMap) |-> seenMap[i].record]

\* detectCycles returns the records, deriveFiveFactorState projects the
\* final values, and the result is returned.
Finish ==
    /\ pc = "detect"
    /\ stack = <<>>
    /\ rootIdx > Len(cycleNodesOf(edges))
    /\ result' = [set |-> TRUE,
                  loopsDetected |-> loopsReturned(seen),
                  timeSeries |-> timeSeries,
                  newState |-> deriveFiveFactorState(values)]
    /\ pc' = "done"
    /\ UNCHANGED <<moduleFactors, graph, opts, variables, edges, values, baselines,
                   timeSeries, step, stack, edgeStack, iter, rootIdx, seen, memo>>

Next ==
    \/ Invoke
    \/ InvokeThrows
    \/ EulerStep
    \/ StartDetect
    \/ VisitRoot
    \/ VisitEdge
    \/ VisitEdgeThrows
    \/ VisitReturn
    \/ Finish

Spec == Init /\ [][Next]_vars

\* The engine is synchronous code on one thread: once called it runs on
\* until it returns, no step of the integrator or of the search waits on
\* anything.  Executing is the enabling condition of Proceed: in every
\* such state exactly one of its steps can be taken (the guards of the
\* steps are each other's complements).  The last conjunct is weak
\* fairness of Proceed, WF_vars(Proceed), with that enabling condition
\* written out.
Executing == pc \in {"integrate", "detect"}
Proceed ==
    EulerStep \/ StartDetect \/ VisitRoot \/ VisitEdge \/ VisitEdgeThrows \/ VisitReturn
    \/ Finish
SpecRunToCompletion ==
    /\ Init /\ [][Next]_vars
    /\ WF_vars(StartDetect)
    /\ ([]<>(~Executing) \/ []<><<Proceed>>_vars)

-----------------------------------------------------------------------------
(* Repeated invocations: the exported function is called directly, one     *)
(* call after another (line 305; the module keeps nothing between calls).  *)
(* memo is a history variable and no state of the program: Remember        *)
(* records any one returned invocation, with its arguments and its result, *)
(* and the statements about two invocations compare every later one with   *)
(* it.  Which invocation is recorded is left open, so that every pair of a *)
(* returned invocation and a later one is compared in some behaviour.      *)

DetInputs ==
    {Arguments(in) : in \in
    { <<GraphObj(Arr(<<Str("A"), Str("B")>>),
                 Arr(<<EdgeObj("A", "B", Half), EdgeObj("B", "A", Rat(-1, 2))>>)),
        OptsObj(Undefined, NumI(1), Num(Half), Num(Half))>>,
      <<GraphObj(Arr(<<VarObj("X", Five, Five)>>), Arr(<<EdgeObj("X", "X", Rat(-1, 2))>>)),
        OptsObj(Undefined, NumI(2), NumI(1), NumI(0))>>,
      <<KeyedGraph(Int2Rat(7), Int2Rat(4)),
        OptsObj(StateObj(NumI(8), NumI(2), NumI(6), NumI(4), NumI(3)), NumI(1), Num(Half), Num(Half))>>,
      <<KeyedGraph(Int2Rat(7), Int2Rat(4)),
        OptsObj(Undefined, NumI(1), Num(Half), Num(Half))>>,
      <<EmptyObject, OptsObj(Obj(<<"vitality">>, <<NumI(3)>>), NumI(1), Num(Half), Num(Half))>>,
      <<Null, EmptyObject>>,
      \* the edges of the first input under another variable, another
      \* initialState, steps, dt and damping, and as a keyed mapping
      <<GraphObj(Arr(<<VarObj("X", Five, Five)>>),
                 Arr(<<EdgeObj("A", "B", Half), EdgeObj("B", "A", Rat(-1, 2))>>)),
        OptsObj(StateObj(NumI(8), NumI(2), NumI(6), NumI(4), NumI(3)), NumI(2), NumI(1), NumI(0))>>,
      <<Obj(<<"variables", "edges">>,
            <<Obj(<<"A", "Meaning">>, <<NumI(3), NumI(7)>>),
              Obj(<<"A", "B">>, <<Obj(<<"to", "weight">>, <<Str("B"), Num(Half)>>),
                                 Obj(<<"target", "strength">>, <<Str("A"), Num(Rat(-1, 2))>>)>>)>>),
        OptsObj(Undefined, NumI(1), Num(Half), NumI(0))>>,
      \* ids that are one object at both ends of a self-loop: an array, and
      \* an object that does not convert
      <<GraphObj(Arr(<<IdVar(Shared(1, Arr(<<Str("x"), Str("y")>>)), Int2Rat(4))>>),
                 Arr(<<IdEdge(Shared(1, Arr(<<Str("x"), Str("y")>>)),
                              Shared(1, Arr(<<Str("x"), Str("y")>>)), Half)>>)),
        OptsObj(Undefined, NumI(1), Num(Half), NumI(0))>>,
      <<GraphObj(Arr(<<Str("A")>>),
                 Arr(<<IdEdge(Shared(4, Unconvertible), Shared(4, Unconvertible), Half)>>)),
        OptsObj(Undefined, NumI(1), Num(Half), NumI(0))>> }}

InvokeAgain ==
    /\ pc \in {"idle", "done", "threw"}
    /\ \E in \in DetInputs : ~Throws(in[1], in[2]) /\ Call(in[1], in[2])

InvokeAgainThrows ==
    /\ pc \in {"idle", "done", "threw"}
    /\ \E in \in DetInputs : Throws(in[1], in[2]) /\ Raise(in[1], in[2])

Remember ==
    /\ pc = "done"
    /\ ~memo.set
    /\ memo' = [set |-> TRUE, between |-> FALSE, graph |-> graph, opts |-> opts,
                result |-> result]
    /\ UNCHANGED <<pc, moduleFactors, graph, opts, variables, edges, values, baselines,
                   timeSeries, step, stack, edgeStack, iter, rootIdx, seen, result>>

NextRepeated ==
    \/ InvokeAgain
    \/ InvokeAgainThrows
    \/ Remember
    \/ EulerStep
    \/ StartDetect
    \/ VisitRoot
    \/ VisitEdge
    \/ VisitEdgeThrows
    \/ VisitReturn
    \/ Finish

SpecRepeated == Init /\ [][NextRepeated]_vars

-----------------------------------------------------------------------------
(* The claims.                                                             *)

Returned == pc = "done" /\ result.set
Running == pc \in {"integrate", "detect", "done"}
LoopTypes == {result.loopsDetected[i].type : i \in 1..Len(result.loopsDetected)}
InRange(x, lo, hi) == RLe(Int2Rat(lo), x) /\ RLe(x, Int2Rat(hi))
\* The id is a string or a number, and so is every end of an edge.
IsPlainId(id) == id.k \in {"string", "number"}
PlainIds == \A i \in 1..Len(edges) : IsPlainId(edges[i].from) /\ IsPlainId(edges[i].to)

\* C1, as stated: with graphDescription = {} the returned loopsDetected is
\* non-empty and holds at least one Reinforcing and at least one Balancing
\* record.
C1_BothLoopTypes ==
    (Returned /\ Literal(graph) = EmptyObject) =>
        /\ Len(result.loopsDetected) > 0
        /\ "Reinforcing" \in LoopTypes
        /\ "Balancing" \in LoopTypes

\* C1, amended: with graphDescription = {} the returned loopsDetected is
\* non-empty and holds at least one Reinforcing record and no Balancing
\* record: every cycle of the 12-edge template has an even number of
\* negative weights.
C1_TemplateLoopsReinforcing ==
    (Returned /\ Literal(graph) = EmptyObject) =>
        /\ Len(result.loopsDetected) > 0
        /\ "Reinforcing" \in LoopTypes
        /\ "Balancing" \notin LoopTypes

\* An invocation on {} has returned the template's five cycles.
C1_Witness ==
    Returned /\ Literal(graph) = EmptyObject /\ Len(result.loopsDetected) = 5

\* The template as the claim lists it: ids, values, baselines.
C2_Ids == << "Isolation", "Belonging", "HPA", "Inflammation", "Neurodegeneration",
             "Withdrawal", "VagalTone", "Meaning" >>
C2_Values == << Rat(60, 10), Rat(40, 10), Rat(60, 10), Rat(55, 10), Rat(52, 10),
                Rat(58, 10), Rat(48, 10), Rat(45, 10) >>
C2_Edges == << <<"Isolation", "HPA", 65>>, <<"HPA", "Inflammation", 70>>,
               <<"Inflammation", "Neurodegeneration", 55>>,
               <<"Neurodegeneration", "Withdrawal", 42>>, <<"Withdrawal", "Isolation", 58>>,
               <<"Belonging", "Isolation", -62>>, <<"Belonging", "VagalTone", 57>>,
               <<"VagalTone", "HPA", -68>>, <<"Meaning", "Belonging", 60>>,
               <<"Meaning", "Isolation", -45>>, <<"Isolation", "Meaning", -35>>,
               <<"VagalTone", "Meaning", 38>> >>

\* C2: with graphDescription = {} the simulated graph is the template: the
\* variables are the 8 template ids, in order, the edges are the 12 template
\* edges, and with no initialState the variables carry the template values
\* and baseline 5 and snapshot 0 holds exactly the 8 template values.
C2_EmptyGraphIsTemplate ==
    (Running /\ Literal(graph) = EmptyObject) =>
        /\ Len(variables) = 8
        /\ \A i \in 1..8 : variables[i].id = Str(C2_Ids[i])
        /\ Len(edges) = 12
        /\ \A i \in 1..12 :
              edges[i] = [from |-> Str(C2_Edges[i][1]), to |-> Str(C2_Edges[i][2]),
                          weight |-> Rat(C2_Edges[i][3], 100)]
        /\ Get(opts, "initialState") = Undefined =>
              /\ \A i \in 1..8 : variables[i].value = C2_Values[i]
                                 /\ variables[i].baseline = Int2Rat(5)
              /\ timeSeries[1] = [step |-> 0,
                                  values |-> [i \in 1..8 |-> [id |-> Str(C2_Ids[i]),
                                                               value |-> C2_Values[i]]]]

\* An invocation on {} without initialState has integrated and returned.
C2_Witness ==
    /\ Returned /\ Literal(graph) = EmptyObject /\ Get(opts, "initialState") = Undefined
    /\ Len(result.timeSeries) >= 2
    /\ result.timeSeries[1].values[4].value = Rat(11, 2)

\* C3: every value of every snapshot, every current value and every
\* baseline of the integrator lies in [0,10], and each of the five fields of
\* the returned newState lies in [1,10].
C3_RangeInvariant ==
    /\ \A s \in 1..Len(timeSeries) : \A i \in 1..Len(timeSeries[s].values) :
          InRange(timeSeries[s].values[i].value, 0, 10)
    /\ \A i \in 1..Len(values) : InRange(values[i].value, 0, 10)
    /\ \A i \in 1..Len(baselines) : InRange(baselines[i].value, 0, 10)
    /\ result.set =>
          /\ \A s \in 1..Len(result.timeSeries) : \A i \in 1..Len(result.timeSeries[s].values) :
                InRange(result.timeSeries[s].values[i].value, 0, 10)
          /\ InRange(result.newState.vitality, 1, 10)
          /\ InRange(result.newState.cognition, 1, 10)
          /\ InRange(result.newState.emotion, 1, 10)
          /\ InRange(result.newState.adaptability, 1, 10)
          /\ InRange(result.newState.meaning, 1, 10)

\* A returned invocation in which both saturations acted: a step pushed a
\* value beyond 10 and the vitality read-out exceeded 10 before clamping.
C3_Witness ==
    /\ Returned
    /\ result.newState.vitality = Int2Rat(10)
    /\ RLt(Int2Rat(10), aggregateUnclamped(values, <<"Belonging", "VagalTone">>,
                           <<"Isolation", "HPA", "Inflammation", "Neurodegeneration">>))
    /\ \E i \in 1..Len(values) :
          /\ values[i].value = Int2Rat(10)
          /\ RLt(Int2Rat(10),
                 nextValueUnclamped(result.timeSeries[Len(result.timeSeries) - 1].values[i].value,
                                    MapGet(baselines, values[i].id),
                                    deltaOf(result.timeSeries[Len(result.timeSeries) - 1].values,
                                            edges, values[i].id),
                                    dtOf(opts), dampingOf(opts)))

\* The steps option when it is a positive integer, else 0.
C4_N == IF Get(opts, "steps").k = "number" /\ Get(opts, "steps").d = 1
           /\ Get(opts, "steps").n > 0
        THEN Get(opts, "steps").n ELSE 0

\* C4: for a positive integer steps = N the returned timeSeries has exactly
\* N+1 snapshots whose step fields are 0, 1, ..., N; while the integrator
\* runs, the snapshots so far are those of steps 0 .. step-1.
C4_SnapshotCount ==
    /\ (Returned /\ C4_N > 0) =>
          /\ Len(result.timeSeries) = C4_N + 1
          /\ \A i \in 1..Len(result.timeSeries) : result.timeSeries[i].step = i - 1
    /\ (pc = "integrate" /\ C4_N > 0) =>
          /\ Len(timeSeries) = step
          /\ step <= C4_N + 1
          /\ \A i \in 1..Len(timeSeries) : timeSeries[i].step = i - 1

\* An invocation with steps = MaxSteps has returned its MaxSteps+1 snapshots.
C4_Witness ==
    Returned /\ C4_N = MaxSteps /\ Len(result.timeSeries) = MaxSteps + 1

\* The association table as the claims use it: id -> factor names.
C5_Table ==
    [ Isolation |-> <<"emotion", "meaning">>, Belonging |-> <<"emotion", "meaning">>,
      HPA |-> <<"vitality", "adaptability">>, Inflammation |-> <<"vitality", "adaptability">>,
      Neurodegeneration |-> <<"cognition", "vitality">>,
      Withdrawal |-> <<"emotion", "adaptability">>,
      VagalTone |-> <<"vitality", "adaptability", "emotion">>,
      Meaning |-> <<"meaning", "cognition">> ]

\* The factors of a list that initialState supplies as finite numbers.
C5_Supplied(initialState, factors) ==
    {i \in 1..Len(factors) : IsFinite(Number(Get(initialState, factors[i])))}

RECURSIVE C5_SumOver(_, _, _)
C5_SumOver(initialState, factors, idxs) ==
    IF idxs = {} THEN Int2Rat(0)
    ELSE LET i == CHOOSE j \in idxs : TRUE
         IN  RAdd(Number(Get(initialState, factors[i])),
                  C5_SumOver(initialState, factors, idxs \ {i}))

\* The mean of the supplied factors of a list, clamped to [0,10].
C5_Mean(initialState, factors) ==
    clamp(RDiv(C5_SumOver(initialState, factors, C5_Supplied(initialState, factors)),
               Int2Rat(Cardinality(C5_Supplied(initialState, factors)))),
          Int2Rat(0), Int2Rat(10))

\* The variable is anchored: initialState is an object that supplies at
\* least one of the factors the table associates with the variable's id.
C5_Anchored(initialState, id) ==
    /\ initialState.k \in {"object", "array"}
    /\ id.k = "string" /\ id.s \in DOMAIN C5_Table
    /\ C5_Supplied(initialState, C5_Table[id.s]) # {}

\* C5: snapshot 0 is the anchored initial condition, no step applied: its
\* step is 0; a variable whose id is in the association table and whose
\* associated factors initialState supplies has the clamped mean of the
\* supplied factor values, whatever value the graph gave it; every other
\* variable has its normalized graph value (the last one listed for its id).
C5_SnapshotZeroAnchored ==
    Running =>
        LET normalized == normalizedVariablesOf(graph)
            initialState == Get(opts, "initialState")
            snapshot == timeSeries[1]
        IN  /\ snapshot.step = 0
            /\ \A e \in 1..Len(snapshot.values) :
                  \E i \in 1..Len(normalized) : normalized[i].id = snapshot.values[e].id
            /\ \A i \in 1..Len(normalized) :
                  (\A j \in (i + 1)..Len(normalized) : normalized[j].id # normalized[i].id) =>
                      /\ MapHas(snapshot.values, normalized[i].id)
                      /\ MapGet(snapshot.values, normalized[i].id) =
                            IF C5_Anchored(initialState, normalized[i].id)
                            THEN C5_Mean(initialState, C5_Table[normalized[i].id.s])
                            ELSE normalized[i].value

\* The edge list is the two edges of a 2-cycle: a -> b and b -> a, a # b.
C6_TwoCycle ==
    /\ Len(edges) = 2
    /\ edges[1].from # edges[1].to
    /\ edges[2].from = edges[1].to
    /\ edges[2].to = edges[1].from

\* C6: for the edge list A->B, B->A (A # B) detectCycles returns exactly one
\* record, over the two nodes, whichever of the two edges is listed first.
C6_TwoCycleOnce ==
    (Returned /\ C6_TwoCycle) =>
        /\ Len(result.loopsDetected) = 1
        /\ Len(result.loopsDetected[1].nodes) = 2
        /\ {result.loopsDetected[1].nodes[1], result.loopsDetected[1].nodes[2]}
              = {edges[1].from, edges[1].to}

\* The records found so far and those returned.
C7_Records ==
    {seen[i].record : i \in 1..Len(seen)}
    \cup {result.loopsDetected[i] : i \in 1..Len(result.loopsDetected)}

\* The product of the signs of the weights is positive: no weight is zero
\* and the negative ones are even in number.
C7_PositiveProduct(weights) ==
    /\ \A i \in 1..Len(weights) : weights[i].n # 0
    /\ Cardinality({i \in 1..Len(weights) : weights[i].n < 0}) % 2 = 0

\* C7: every cycle record is Reinforcing exactly when the product of the
\* signs of its recorded weights is positive, and Balancing otherwise; a
\* record with a zero weight is Balancing.
C7_TypeIsSignProduct ==
    \A r \in C7_Records :
        /\ r.type \in {"Reinforcing", "Balancing"}
        /\ r.type = "Reinforcing" <=> C7_PositiveProduct(r.weights)
        /\ (\E i \in 1..Len(r.weights) : r.weights[i].n = 0) => r.type = "Balancing"

\* A returned record of two edges, one of weight zero, is Balancing.
C7_Witness ==
    /\ Returned
    /\ \E i \in 1..Len(result.loopsDetected) :
          /\ Len(result.loopsDetected[i].weights) = 2
          /\ \E j \in 1..2 : result.loopsDetected[i].weights[j].n = 0
          /\ \E j \in 1..2 : result.loopsDetected[i].weights[j].n # 0
          /\ result.loopsDetected[i].type = "Balancing"

\* C8, as stated: a self-loop X -> X on an id X that is a string or a
\* number is detected as a cycle with nodes = [X]; when a self-loop of
\* negative weight is the only edge, loopsDetected is exactly one record, of
\* type Balancing, nodes [X] and dominance 100.
C8_SelfLoop ==
    Returned =>
        /\ \A i \in 1..Len(edges) :
              (IsPlainId(edges[i].from) /\ edges[i].from = edges[i].to) =>
                  \E j \in 1..Len(result.loopsDetected) :
                      result.loopsDetected[j].nodes = <<edges[i].from>>
        /\ (Len(edges) = 1 /\ IsPlainId(edges[1].from) /\ edges[1].from = edges[1].to
            /\ edges[1].weight.n < 0) =>
              /\ Len(result.loopsDetected) = 1
              /\ result.loopsDetected[1].type = "Balancing"
              /\ result.loopsDetected[1].nodes = <<edges[1].from>>
              /\ result.loopsDetected[1].dominance = 100

\* The influence on an id from the first n edges, read from the values of
\* one step: the sum of value[from] * weight over the edges into the id
\* whose endpoints both have a value.
RECURSIVE C9_Influence(_, _, _, _)
C9_Influence(snapshotValues, edgeList, id, n) ==
    IF n = 0 THEN Int2Rat(0)
    ELSE LET e == edgeList[n]
             rest == C9_Influence(snapshotValues, edgeList, id, n - 1)
         IN  IF e.to = id /\ MapHas(snapshotValues, e.from) /\ MapHas(snapshotValues, e.to)
             THEN RAdd(rest, RMul(MapGet(snapshotValues, e.from), e.weight))
             ELSE rest

\* clamp(v + dt * (influence - k * (v - baseline)), 0, 10).
C9_Update(v, baseline, influence, dtv, k) ==
    LET raw == RAdd(v, RMul(dtv, RSub(influence, RMul(k, RSub(v, baseline)))))
    IN  IF RLt(raw, Int2Rat(0)) THEN Int2Rat(0)
        ELSE IF RLt(Int2Rat(10), raw) THEN Int2Rat(10) ELSE raw

\* The scenario of the claim: X at 5, baseline 5, self-loop of weight -0.5,
\* steps = 1, dt = 1, damping = 0.
C9_InstanceGraph ==
    GraphObj(Arr(<<VarObj("X", Int2Rat(5), Int2Rat(5))>>),
             Arr(<<EdgeObj("X", "X", Rat(-1, 2))>>))
C9_InstanceOpts == OptsObj(Undefined, NumI(1), NumI(1), NumI(0))

\* An iteration of the integration loop: a snapshot is added while the
\* integrator runs.
C9_Step == pc = "integrate" /\ Len(timeSeries') = Len(timeSeries) + 1

\* C9: every step is a synchronous update: the new value of each variable
\* is clamp(v + dt*(influence - k*(v - baseline)), 0, 10) with v and
\* every source value of the influence taken from the values at the start
\* of the step, and the snapshot of the step records the new values; in
\* the scenario the step-1 value of X is 2.5.
C9_SynchronousUpdate ==
    [][C9_Step =>
        /\ Len(values') = Len(values)
        /\ \A i \in 1..Len(values) :
              /\ values'[i].id = values[i].id
              /\ values'[i].value =
                    C9_Update(values[i].value, MapGet(baselines, values[i].id),
                              C9_Influence(values, edges, values[i].id, Len(edges)),
                              dtOf(opts), dampingOf(opts))
        /\ LET snapshot == timeSeries'[Len(timeSeries')]
           IN  /\ snapshot.step = Len(timeSeries)
               /\ \A e \in 1..Len(snapshot.values) :
                     MapHas(values', snapshot.values[e].id) =>
                         snapshot.values[e].value = MapGet(values', snapshot.values[e].id)
        /\ (Literal(graph) = C9_InstanceGraph /\ Literal(opts) = C9_InstanceOpts) =>
              timeSeries'[2].values = <<[id |-> Str("X"), value |-> Rat(5, 2)]>>
    ]_vars

\* The scenario has returned, with X at 2.5 after its one step.
C9_Witness ==
    /\ Returned
    /\ Literal(graph) = C9_InstanceGraph /\ Literal(opts) = C9_InstanceOpts
    /\ Len(result.timeSeries) = 2
    /\ result.timeSeries[2].values[1].value = Rat(5, 2)

\* C10: an invocation returns the result that the remembered invocation
\* with the same (graph, options) returned, whatever was invoked before
\* and between them, and the module-level association table is never
\* changed.
C10_Deterministic ==
    /\ moduleFactors = C5_Table
    /\ (Returned /\ memo.set /\ memo.graph = graph /\ memo.opts = opts) =>
          /\ result.loopsDetected = memo.result.loopsDetected
          /\ result.timeSeries = memo.result.timeSeries
          /\ result.newState = memo.result.newState

\* The arguments of the remembered invocation have returned again after an
\* invocation with other arguments ran in between.
C10_Witness ==
    /\ Returned /\ memo.set /\ memo.between
    /\ memo.graph = graph /\ memo.opts = opts
    /\ Len(result.loopsDetected) > 0

\* C11, as stated (totality): no invocation, whatever graphDescription and
\* options it is given, ends in an exception.
C11_NeverThrows == pc # "threw"

\* C12, as stated: when normalization yields an empty variable list or an
\* empty edge list, the whole graph is the template: the variables are the
\* template's 8 and the edges the template's 12, nothing of the caller's
\* graph is kept.
C12_EntireGraphReplaced ==
    (Running /\ (Len(normalizeVariables(graph)) = 0 \/ Len(normalizeEdges(graph)) = 0)) =>
        /\ [i \in 1..Len(variables) |-> variables[i].id]
              = [i \in 1..Len(TemplateVariables) |-> TemplateVariables[i].id]
        /\ edges = TemplateEdges
        /\ [i \in 1..Len(timeSeries[1].values) |-> timeSeries[1].values[i].id]
              = [i \in 1..Len(TemplateVariables) |-> TemplateVariables[i].id]

\* C13, as stated: the variable list that normalization produces, and the
\* anchored list made from it, never hold two variables with the same id.
C13_UniqueIds ==
    Running =>
        /\ \A i, j \in 1..Len(normalizedVariablesOf(graph)) :
              i # j => normalizedVariablesOf(graph)[i].id # normalizedVariablesOf(graph)[j].id
        /\ \A i, j \in 1..Len(variables) : i # j => variables[i].id # variables[j].id

\* The edges whose two endpoints both have a value: the edge list with the
\* other edges ignored.
C14_KnownEdges(snapshotValues, edgeList) ==
    LET known(e) == MapHas(snapshotValues, e.from) /\ MapHas(snapshotValues, e.to)
    IN  SelectSeq(edgeList, known)

\* The sum of value[from] * weight over the first n edges that end in id.
RECURSIVE C14_Influence(_, _, _, _)
C14_Influence(snapshotValues, edgeList, id, n) ==
    IF n = 0 THEN Int2Rat(0)
    ELSE IF edgeList[n].to = id
         THEN RAdd(C14_Influence(snapshotValues, edgeList, id, n - 1),
                   RMul(MapGet(snapshotValues, edgeList[n].from), edgeList[n].weight))
         ELSE C14_Influence(snapshotValues, edgeList, id, n - 1)

\* An id that is an endpoint of an edge and has no value.
C14_Unknown(id) == ~MapHas(values, id)

\* The distinct ids that are an endpoint of an edge.
C14_Endpoints ==
    {edges[i].from : i \in 1..Len(edges)} \cup {edges[i].to : i \in 1..Len(edges)}

\* The edge joins two ids that are strings or numbers, one of them no
\* variable.
C14_Dangling(e) ==
    /\ C14_Unknown(e.from) \/ C14_Unknown(e.to)
    /\ e.from.k \in {"string", "number"} /\ e.to.k \in {"string", "number"}

\* C14: an edge with an endpoint outside the variable set contributes
\* nothing to integration (every step computes its values, and records
\* its snapshot, from the values before it with those edges ignored: the
\* snapshot holds the new values of the variables, under their property
\* names, and nothing else), yet cycle detection uses it: the search has
\* started from every endpoint of every edge, and for every self-loop
\* and every 2-cycle through an id that is no variable (the ids strings or
\* numbers) a record with its canonical key is returned.
C14_DroppedButDetected ==
    /\ [][C9_Step =>
            LET kept == C14_KnownEdges(values, edges)
                snapshot == timeSeries'[Len(timeSeries')]
            IN  /\ \A i \in 1..Len(values) :
                      values'[i].value =
                          C9_Update(values[i].value, MapGet(baselines, values[i].id),
                                    C14_Influence(values, kept, values[i].id, Len(kept)),
                                    dtOf(opts), dampingOf(opts))
                /\ \A e \in 1..Len(snapshot.values) :
                      \E i \in 1..Len(values) :
                          /\ ToPropertyKey(values[i].id) = snapshot.values[e].id.s
                          /\ snapshot.values[e].value = values'[i].value
       ]_vars
    /\ [](Returned => rootIdx = Cardinality(C14_Endpoints) + 1)
    /\ [](Returned =>
          \A i, j \in 1..Len(edges) :
              (edges[i].to = edges[j].from /\ edges[j].to = edges[i].from
               /\ C14_Dangling(edges[i])) =>
                  \E r \in 1..Len(result.loopsDetected) :
                      canonicalizeCycle(Append(result.loopsDetected[r].nodes,
                                               result.loopsDetected[r].nodes[1]))
                          = canonicalizeCycle(IF edges[i].from = edges[i].to
                                              THEN <<edges[i].from, edges[i].to>>
                                              ELSE <<edges[i].from, edges[i].to,
                                                     edges[i].from>>))

\* A returned invocation with the edges Y -> A and A -> Y, Y no variable:
\* the cycle through Y is reported, Y is in no snapshot, and A moved only
\* by its damping, as if Y -> A were not there.
C14_Witness ==
    /\ Returned
    /\ edges = << [from |-> Str("Y"), to |-> Str("A"), weight |-> Half],
                  [from |-> Str("A"), to |-> Str("Y"), weight |-> Int2Rat(-1)] >>
    /\ \A s \in 1..Len(result.timeSeries) : ~MapHas(result.timeSeries[s].values, Str("Y"))
    /\ \E r \in 1..Len(result.loopsDetected) :
          result.loopsDetected[r].nodes = <<Str("Y"), Str("A")>>
    /\ MapGet(result.timeSeries[1].values, Str("A")) = Int2Rat(4)
    /\ MapGet(result.timeSeries[2].values, Str("A")) = Rat(17, 4)

\* The sum of |weight| over the first n weights of a record.
RECURSIVE C15_SumAbs(_, _)
C15_SumAbs(weights, n) ==
    IF n = 0 THEN Int2Rat(0)
    ELSE RAdd(C15_SumAbs(weights, n - 1),
              IF weights[n].n < 0 THEN RNeg(weights[n]) ELSE weights[n])

\* |weight| of an edge, and the largest one over all edges of the graph.
C15_Abs(e) == IF e.weight.n < 0 THEN RNeg(e.weight) ELSE e.weight
C15_MaxAbs ==
    C15_Abs(edges[CHOOSE i \in 1..Len(edges) :
                     \A j \in 1..Len(edges) : RLe(C15_Abs(edges[j]), C15_Abs(edges[i]))])

\* k = round(100 * (sum / count) / max), halves rounded up:
\* (2k - 1) * count * max <= 200 * sum < (2k + 1) * count * max.
C15_IsRounded(k, sum, count, max) ==
    /\ RLe(RMul(Int2Rat((2 * k - 1) * count), max), RMul(Int2Rat(200), sum))
    /\ RLt(RMul(Int2Rat(200), sum), RMul(Int2Rat((2 * k + 1) * count), max))

\* C15: every cycle record's dominance is an integer in 0..100 equal to
\* round(100 * (mean of |weight| over the record's weights) / (max |weight|
\* over all edges of the graph)); when every weight of the graph is 0 the
\* mean is 0 too and the dominance is 0.  A cycle that is the whole graph
\* and has a non-zero weight scores 100.
C15_DominanceRelative ==
    (pc \in {"detect", "done"}) =>
        \A r \in C7_Records :
            /\ r.dominance \in 0..100
            /\ IF C15_MaxAbs.n = 0 THEN r.dominance = 0
               ELSE C15_IsRounded(r.dominance, C15_SumAbs(r.weights, Len(r.weights)),
                                  Len(r.weights), C15_MaxAbs)
            /\ (Len(edges) = Len(r.weights) /\ Len(edges) = 1 /\ C15_MaxAbs.n # 0) =>
                  r.dominance = 100

\* The positive and the negative id set of each factor.
C16_Positive ==
    [ vitality     |-> <<"Belonging", "VagalTone">>,
      cognition    |-> <<"Meaning", "Belonging">>,
      emotion      |-> <<"Belonging", "Meaning", "VagalTone">>,
      adaptability |-> <<"VagalTone", "Meaning", "Belonging">>,
      meaning      |-> <<"Meaning", "Belonging">> ]
C16_Negative ==
    [ vitality     |-> <<"Isolation", "HPA", "Inflammation", "Neurodegeneration">>,
      cognition    |-> <<"Isolation", "Neurodegeneration", "Withdrawal">>,
      emotion      |-> <<"Isolation", "Withdrawal", "HPA">>,
      adaptability |-> <<"HPA", "Inflammation", "Isolation">>,
      meaning      |-> <<"Isolation", "Withdrawal">> ]
C16_Canonical == { "Isolation", "Belonging", "HPA", "Inflammation", "Neurodegeneration",
                   "Withdrawal", "VagalTone", "Meaning" }

\* The value of an id in a snapshot, 5 when the snapshot has no such id.
C16_Value(snapshotValues, name) ==
    IF \E i \in 1..Len(snapshotValues) : snapshotValues[i].id = Str(name)
    THEN snapshotValues[CHOOSE i \in 1..Len(snapshotValues) :
                            snapshotValues[i].id = Str(name)].value
    ELSE Int2Rat(5)

\* The sum of the values of the first n names, and their mean.
RECURSIVE C16_Sum(_, _, _)
C16_Sum(snapshotValues, names, n) ==
    IF n = 0 THEN Int2Rat(0)
    ELSE RAdd(C16_Sum(snapshotValues, names, n - 1), C16_Value(snapshotValues, names[n]))
C16_Avg(snapshotValues, names) ==
    RDiv(C16_Sum(snapshotValues, names, Len(names)), Int2Rat(Len(names)))

\* clamp(5 + 0.6*(posAvg - 5) - 0.6*(negAvg - 5), 1, 10).
C16_Factor(snapshotValues, factor) ==
    LET raw == RAdd(Int2Rat(5),
                    RMul(Rat(3, 5), RSub(C16_Avg(snapshotValues, C16_Positive[factor]),
                                         C16_Avg(snapshotValues, C16_Negative[factor]))))
    IN  IF RLt(raw, Int2Rat(1)) THEN Int2Rat(1)
        ELSE IF RLt(Int2Rat(10), raw) THEN Int2Rat(10) ELSE raw

\* C16: newState is computed from the values of the last snapshot (step N)
\* only: each factor is clamp(5 + 0.6*(posAvg-5) - 0.6*(negAvg-5), 1, 10)
\* over its positive and negative id sets, 5 standing for every id the
\* snapshot lacks; a graph with none of the 8 canonical ids gives 5 for all
\* five factors.
C16_NewStateFromFinal ==
    Returned =>
        LET final == result.timeSeries[Len(result.timeSeries)].values
        IN  /\ result.timeSeries[Len(result.timeSeries)].step = stepsOf(opts)
            /\ \A f \in DOMAIN C16_Positive : result.newState[f] = C16_Factor(final, f)
            /\ (\A i \in 1..Len(final) :
                    ~(final[i].id.k = "string" /\ final[i].id.s \in C16_Canonical)) =>
                  \A f \in DOMAIN C16_Positive : result.newState[f] = Int2Rat(5)

\* A graph with Belonging and HPA but no other canonical id has returned:
\* after one step Belonging is 8.75 and HPA 0, the missing ids count as 5,
\* and vitality is 5 + 0.6*(6.875 - 5) - 0.6*(3.75 - 5) = 6.875.
C16_Witness ==
    /\ Returned
    /\ Len(result.timeSeries) = 2
    /\ ~MapHas(result.timeSeries[2].values, Str("VagalTone"))
    /\ MapHas(result.timeSeries[2].values, Str("Belonging"))
    /\ MapGet(result.timeSeries[2].values, Str("Belonging")) = Rat(35, 4)
    /\ MapGet(result.timeSeries[2].values, Str("HPA")) = Int2Rat(0)
    /\ result.newState.vitality = Rat(55, 8)

\* The associated factors the claim counts: those initialState supplies
\* with a value that is a finite number (or converts to one); an absent or
\* null factor is not counted.
C17_Counted(initialState, factors) ==
    {j \in 1..Len(factors) :
        /\ Get(initialState, factors[j]).k \notin {"undefined", "null"}
        /\ IsFinite(Number(Get(initialState, factors[j])))}

\* C17, as stated: for a table-associated variable the anchor mean is taken
\* over the counted factors only, a null factor not being one of them, and
\* when no associated factor is counted the variable keeps the value and
\* baseline normalization gave it.
C17_OnlyFiniteCounted ==
    (Running /\ Get(opts, "initialState").k = "object") =>
        LET normalized == normalizedVariablesOf(graph)
            initialState == Get(opts, "initialState")
        IN  \A i \in 1..Len(normalized) :
                (normalized[i].id.k = "string" /\ normalized[i].id.s \in DOMAIN C5_Table) =>
                    LET factors == C5_Table[normalized[i].id.s]
                        counted == C17_Counted(initialState, factors)
                        mean == clamp(RDiv(C5_SumOver(initialState, factors, counted),
                                           Int2Rat(Cardinality(counted))),
                                      Int2Rat(0), Int2Rat(10))
                    IN  IF counted = {} THEN variables[i] = normalized[i]
                        ELSE variables[i].value = mean /\ variables[i].baseline = mean

\* C18: anchoring changes only table-associated variables, and those
\* consistently: the anchored list has the number, ids and order of the
\* normalized one; a variable that differs from its normalized self has one
\* of the 8 table ids and value = baseline = the clamped mean of its
\* association; a variable with any other id keeps its value and baseline;
\* with an absent or non-object initialState no variable changes.
C18_AnchorFrame ==
    Running =>
        LET normalized == normalizedVariablesOf(graph)
            initialState == Get(opts, "initialState")
        IN  /\ Len(variables) = Len(normalized)
            /\ \A i \in 1..Len(normalized) :
                  /\ variables[i].id = normalized[i].id
                  /\ variables[i] # normalized[i] =>
                        /\ normalized[i].id.k = "string"
                        /\ normalized[i].id.s \in C16_Canonical
                        /\ variables[i].value = variables[i].baseline
                        /\ variables[i].value =
                              C5_Mean(initialState, C5_Table[normalized[i].id.s])
                  /\ ~(normalized[i].id.k = "string" /\ normalized[i].id.s \in C16_Canonical) =>
                        variables[i] = normalized[i]
            /\ initialState.k \notin {"object", "array"} => variables = normalized

\* With a complete initialState the graph's Belonging (7, baseline 7) is
\* anchored to value = baseline = 4.5 and the custom variable A, ninth in
\* the list, is still at value = baseline = 3.
C18_Witness ==
    /\ Returned
    /\ Literal(Get(opts, "initialState")) = StateObj(NumI(8), NumI(2), NumI(6), NumI(4), NumI(3))
    /\ normalizedVariablesOf(graph)[1] = [id |-> Str("Belonging"), value |-> Int2Rat(7),
                                          baseline |-> Int2Rat(7)]
    /\ variables[1] = [id |-> Str("Belonging"), value |-> Rat(9, 2), baseline |-> Rat(9, 2)]
    /\ Len(variables) = 9
    /\ variables[9] = [id |-> Str("A"), value |-> Int2Rat(3), baseline |-> Int2Rat(3)]

\* C19, as stated: every edge of the normalized edge list has a present,
\* non-empty from and to, whatever shape the edges came in.
C19_EdgesResolvable ==
    Running =>
        \A i \in 1..Len(edges) :
            /\ edges[i].from.k \notin {"undefined", "null"} /\ edges[i].from # Str("")
            /\ edges[i].to.k \notin {"undefined", "null"} /\ edges[i].to # Str("")

\* The edge graph has an edge a -> b.
C20_HasEdge(a, b) == \E i \in 1..Len(edges) : edges[i].from = a /\ edges[i].to = b

\* No two entries of the edge list join the same pair in the same direction.
C20_NoParallelEdges ==
    \A i, j \in 1..Len(edges) :
        (edges[i].from = edges[j].from /\ edges[i].to = edges[j].to) => i = j

\* The simple paths that extend a path of the set by one edge.
C20_Step(paths) ==
    UNION { {Append(p, edges[i].to) :
                i \in {j \in 1..Len(edges) :
                          /\ edges[j].from = p[Len(p)]
                          /\ \A k \in 1..Len(p) : p[k] # edges[j].to}} : p \in paths }

\* The simple paths of at most k more edges that start with a path of the set.
RECURSIVE C20_Paths(_, _)
C20_Paths(paths, k) ==
    IF k = 0 \/ paths = {} THEN paths
    ELSE paths \cup C20_Paths(C20_Step(paths), k - 1)

\* The elementary directed cycles of the edge graph, as node sequences:
\* the simple paths whose last node has an edge to the first.
C20_Cycles ==
    {p \in C20_Paths({<<edges[i].from>> : i \in 1..Len(edges)}, Len(edges)) :
        C20_HasEdge(p[Len(p)], p[1])}

\* One node sequence is a rotation of the other.
C20_IsRotation(a, b) ==
    /\ Len(a) = Len(b)
    /\ \E r \in 0..(Len(a) - 1) :
          \A k \in 1..Len(a) : b[k] = a[((k - 1 + r) % Len(a)) + 1]

\* C20, as stated: for an edge list without parallel edges loopsDetected
\* holds exactly one record per elementary directed cycle of the edge
\* graph: every record is such a cycle, every such cycle has a record (so
\* the two directions of a triangle have one each, and the order of the
\* edge list does not matter), and no two records are rotations of the
\* same node sequence.
C20_OneRecordPerCycle ==
    (Returned /\ C20_NoParallelEdges) =>
        /\ \A r \in 1..Len(result.loopsDetected) :
              result.loopsDetected[r].nodes \in C20_Cycles
        /\ \A c \in C20_Cycles :
              \E r \in 1..Len(result.loopsDetected) :
                  C20_IsRotation(c, result.loopsDetected[r].nodes)
        /\ \A r, q \in 1..Len(result.loopsDetected) :
              C20_IsRotation(result.loopsDetected[r].nodes, result.loopsDetected[q].nodes)
                  => r = q

\* The distinct ids that are an endpoint of an edge.
C21_Endpoints ==
    {edges[i].from : i \in 1..Len(edges)} \cup {edges[i].to : i \in 1..Len(edges)}

\* The search never holds a node twice on its active path, its depth is at
\* most the number of distinct endpoint ids, it ends with both stacks
\* empty, and the integrator ends after exactly N steps (N the steps
\* option, 12 when that is no positive integer).
C21_Bounded ==
    /\ pc = "integrate" => step <= stepsOf(opts) + 1
    /\ pc = "detect" =>
          /\ \A i, j \in 1..Len(stack) : stack[i] = stack[j] => i = j
          /\ Len(stack) <= Cardinality(C21_Endpoints)
          /\ Len(edgeStack) <= Cardinality(C21_Endpoints)
    /\ pc \in {"detect", "done"} =>
          /\ step = stepsOf(opts) + 1
          /\ Len(timeSeries) = stepsOf(opts) + 1
          /\ timeSeries[Len(timeSeries)].step = stepsOf(opts)
    /\ pc = "done" => stack = <<>> /\ edgeStack = <<>>

\* C21: every invocation terminates: the bounds above hold throughout; an
\* invocation that has started to integrate always comes to its end; and
\* on a graph whose ids are strings or numbers that end is the return, the
\* search finished with both stacks empty.
C21_Terminates ==
    /\ []C21_Bounded
    /\ (pc = "integrate") ~> (pc \in {"done", "threw"})
    /\ (pc = "integrate" /\ PlainIds) ~> (pc = "done")

\* The search of the two triangles over A, B, C, whose descents reach the
\* depth of three nodes, has returned after its one integration step.
C21_Witness ==
    /\ Returned /\ PlainIds
    /\ Len(edges) = 6 /\ Cardinality(C21_Endpoints) = 3
    /\ Len(result.loopsDetected) = 5
    /\ stack = <<>> /\ edgeStack = <<>>
    /\ Len(result.timeSeries) = 2

\* C22: loopsDetected is a function of the normalized edge list alone: an
\* invocation whose edge list equals that of the remembered invocation
\* returns the same records in the same order, whatever the variables,
\* initialState, steps, dt and damping of the two are.
C22_LoopsFromEdgesAlone ==
    (Returned /\ memo.set /\ normalizedEdgesOf(memo.graph) = edges) =>
        result.loopsDetected = memo.result.loopsDetected

\* An invocation has returned whose edge list is that of the remembered
\* one while its variables, initialState, steps, dt and damping all differ.
C22_Witness ==
    /\ Returned /\ memo.set
    /\ normalizedEdgesOf(memo.graph) = edges
    /\ normalizedVariablesOf(memo.graph) # normalizedVariablesOf(graph)
    /\ Get(memo.opts, "initialState") # Get(opts, "initialState")
    /\ stepsOf(memo.opts) # stepsOf(opts)
    /\ dtOf(memo.opts) # dtOf(opts)
    /\ dampingOf(memo.opts) # dampingOf(opts)
    /\ Len(result.loopsDetected) > 0
    /\ result.timeSeries # memo.result.timeSeries

\* The edge list holds an edge from a to b of weight w.
C23_HasEdge(a, b, w) ==
    \E e \in 1..Len(edges) : edges[e].from = a /\ edges[e].to = b /\ edges[e].weight = w

\* The record is a cycle of the edge list: pairwise distinct nodes, as many
\* weights as nodes, and weights[i] the weight of an edge from nodes[i] to
\* the next node, the first one after the last.
C23_IsCycle(r) ==
    LET n == Len(r.nodes)
    IN  /\ n >= 1
        /\ \A i, j \in 1..n : r.nodes[i] = r.nodes[j] => i = j
        /\ Len(r.weights) = n
        /\ \A i \in 1..n : C23_HasEdge(r.nodes[i], r.nodes[(i % n) + 1], r.weights[i])

\* C23: on a graph whose ids are strings or numbers every record, stored
\* or returned, is a cycle of the edge list with aligned nodes and weights;
\* during every search the weight stack holds the weights of the edges that
\* join the consecutive nodes of the path stack, one fewer than the path
\* has nodes between two edges and, with the weight of the edge under
\* examination pushed, exactly as many.
C23_RecordsAreCycles ==
    /\ pc = "detect" =>
          /\ stack = <<>> => edgeStack = <<>>
          /\ stack # <<>> =>
                /\ Len(edgeStack) + 1 = Len(stack)
                /\ \A j \in 1..Len(edgeStack) :
                      C23_HasEdge(stack[j], stack[j + 1], edgeStack[j])
          /\ PlainIds => \A s \in 1..Len(seen) : C23_IsCycle(seen[s].record)
    /\ (Returned /\ PlainIds) =>
          \A r \in 1..Len(result.loopsDetected) : C23_IsCycle(result.loopsDetected[r])

\* An invocation on string ids has returned a record of at least three
\* nodes whose weights are not all the same.
C23_Witness ==
    /\ Returned /\ PlainIds
    /\ \E r \in 1..Len(result.loopsDetected) :
          /\ Len(result.loopsDetected[r].nodes) >= 3
          /\ result.loopsDetected[r].weights[1] # result.loopsDetected[r].weights[2]
          /\ result.loopsDetected[r].weights[2] # result.loopsDetected[r].weights[3]

\* The caller's edge items, in each accepted shape: the items of an array,
\* and of a keyed mapping the edge records and the items of the lists.
C24_Items ==
    LET raw == Get(graph, "edges")
    IN  IF IsArray(raw) THEN raw.items
        ELSE IF raw.k = "object"
        THEN Flatten([i \in 1..Len(raw.items) |->
                        IF IsArray(raw.items[i]) THEN raw.items[i].items
                        ELSE <<raw.items[i]>>])
        ELSE <<>>

\* An edge object with no weight, strength or value field, or with a
\* non-finite one.
C24_NoWeight(item) ==
    /\ item.k = "object"
    /\ LET field == Coalesce(Coalesce(Get(item, "weight"), Get(item, "strength")),
                            Get(item, "value"))
       IN  \/ field.k \in {"undefined", "null"}
           \/ ~ConvertThrows(field) /\ ~IsFinite(Number(field))

\* A list item that is no object: a bare target id.
C24_Bare(item) == Truthy(item) /\ item.k \in {"string", "number"}

\* The invocation runs on the caller's edges and none of them carries a
\* usable weight.
C24_Weightless ==
    /\ Running
    /\ edges # TemplateEdges
    /\ Len(C24_Items) > 0
    /\ \A i \in 1..Len(C24_Items) :
          C24_NoWeight(C24_Items[i]) \/ ~Truthy(C24_Items[i]) \/ C24_Bare(C24_Items[i])

\* C24, as stated: an input edge that carries no weight, strength or value
\* field (or a non-finite one) is given weight 0 by normalization, in every
\* accepted shape, a list of bare target ids included.
C24_WeightZero ==
    C24_Weightless => \A e \in 1..Len(edges) : edges[e].weight = Int2Rat(0)

\* C24, amended: an edge object that carries no weight, strength or value
\* field (or a non-finite one) is given weight 0 in every accepted shape,
\* and a bare target id in a list of a keyed mapping is given weight 0.5:
\* the weights are 0 or 0.5, as many edges weigh 0.5 as there are bare
\* targets, and without bare targets every weight is 0.
C24_WeightZeroOrBareHalf ==
    C24_Weightless =>
        /\ \A e \in 1..Len(edges) : edges[e].weight \in {Int2Rat(0), Rat(1, 2)}
        /\ Cardinality({e \in 1..Len(edges) : edges[e].weight = Rat(1, 2)})
              = Cardinality({i \in 1..Len(C24_Items) : C24_Bare(C24_Items[i])})

\* An invocation runs on a keyed mapping to lists that hold a bare target
\* and a weightless edge object: one edge of weight 0.5 and one of weight 0
\* leave A.
C24_Witness ==
    /\ C24_Weightless
    /\ pc = "done"
    /\ \E e, f \in 1..Len(edges) :
          /\ edges[e].from = Str("A") /\ edges[e].to = Str("B") /\ edges[e].weight = Rat(1, 2)
          /\ edges[f].from = Str("A") /\ edges[f].to = Str("A") /\ edges[f].weight = Int2Rat(0)
    /\ \E i \in 1..Len(C24_Items) : C24_NoWeight(C24_Items[i])

=============================================================================
